---- MODULE Spec2Model ----
(***************************************************************************)
(* VoiceShopper: the voice-capture session controller                      *)
(* (hooks/useSpeechRecognition.ts), the debounced transcript accumulator   *)
(* (hooks/use-debounce.ts), the catalog (data/groceryItems) and the        *)
(* orchestrating component GroceryApp with its parser and check-off        *)
(* matcher.                                                                *)
(*                                                                         *)
(* GroceryApp is a React function component.  Every handler below is one   *)
(* atomic step that runs the handler and then, when it changed React       *)
(* state, the re-render and its effects (Commit).  Three facts of the      *)
(* source shape the model:                                                 *)
(*  - the effect of useSpeechRecognition.ts:51-193 lists onResult, onEnd   *)
(*    and onError among its dependencies, and GroceryApp passes them as    *)
(*    inline arrow functions, so the effect runs again after every render: *)
(*    its cleanup clears the three referenced timers and its body builds a *)
(*    new recognition object and stores it in recognitionRef;              *)
(*  - the listeners of a recognition object read isListening, onResult and *)
(*    onEnd of the render that built the object (constants of that         *)
(*    render), and manuallyStoppedRef / recognitionRef through refs;       *)
(*  - a recognition object that was started keeps running when             *)
(*    recognitionRef is replaced: nothing refers to it any more.           *)
(***************************************************************************)
EXTENDS Integers, Sequences, FiniteSets, TLC

VARIABLES
  isSupported,            \* useSpeechRecognition.ts:37, after the mount effect
  hook,                   \* per session controller: the state of one useSpeechRecognition
  mode,                   \* GroceryApp: AppMode
  hasStartedShopping,     \* GroceryApp (part_002:22)
  items,                  \* GroceryApp: ShoppingItem[]
  accumulatedTranscript,  \* GroceryApp: buffer of final texts (part_002:27)
  debouncedTranscript,    \* use-debounce.ts: debouncedValue
  debounceTimer,          \* use-debounce.ts: the setTimeout handler is pending
  itemsToAddRef,          \* GroceryApp (part_002:30): "null", or "none" for []
  settle,                 \* pending 100 ms setTimeout(startListening) per controller
  resetTimers,            \* pending 3 s completion resets (checkOffItems / handleToggleItem)
  endTimers,              \* pending 2 s setTimeout(handleStopAddingItems) of onEnd
  events,                 \* what the last step reported (toasts, parser calls), in order
  input                   \* the operation of the last step and its argument

vars == <<isSupported, hook, mode, hasStartedShopping, items,
          accumulatedTranscript, debouncedTranscript, debounceTimer, itemsToAddRef,
          settle, resetTimers, endTimers, events, input>>

----------------------------------------------------------------------------
(* Bounds of the model *)

MaxOrphans == 1      \* started recognition objects that recognitionRef no longer holds
MaxPending == 1      \* pending timers of one kind (settle, safety pairs, stale restarts, ...)
MaxResets == 2       \* pending 3 s resets of one kind
MaxItems == 2        \* items in the list
MaxBuffer == 19      \* characters held by the accumulator
MaxTranscript == 34  \* characters of finalTranscript

(* Program constants *)

AddTimeout == 3000   \* part_002:99
ShopTimeout == 0     \* part_002:141
Continuous == TRUE   \* part_002:97, 139

Ctl == {"add", "shop"}
Timeout(c) == IF c = "add" THEN AddTimeout ELSE ShopTimeout

----------------------------------------------------------------------------
(* Strings are sequences of one-character strings. *)

Chars(s) == [i \in 1..Len(s) |-> SubSeq(s, i, i)]

UpperCase == Chars("ABCDEFGHIJKLMNOPQRSTUVWXYZ")
LowerCase == Chars("abcdefghijklmnopqrstuvwxyz")
Digits == Chars("0123456789")

InSeq(x, s) == \E i \in 1..Len(s) : s[i] = x
IndexIn(x, s) == CHOOSE i \in 1..Len(s) : s[i] = x
MinOf(S) == CHOOSE x \in S : \A y \in S : x <= y
MaxOf(S) == CHOOSE x \in S : \A y \in S : x >= y

IsDigit(ch) == InSeq(ch, Digits)
IsAlpha(ch) == InSeq(ch, UpperCase) \/ InSeq(ch, LowerCase)
LowerChar(ch) == IF InSeq(ch, UpperCase) THEN LowerCase[IndexIn(ch, UpperCase)] ELSE ch
UpperChar(ch) == IF InSeq(ch, LowerCase) THEN UpperCase[IndexIn(ch, LowerCase)] ELSE ch

\* String.prototype.toLowerCase, trim, slice, includes, startsWith at an index
ToLower(s) == [i \in 1..Len(s) |-> LowerChar(s[i])]
Trim(s) ==
  LET ix == {i \in 1..Len(s) : s[i] # " "}
  IN IF ix = {} THEN <<>> ELSE SubSeq(s, MinOf(ix), MaxOf(ix))
From(s, i) == SubSeq(s, i, Len(s))
At(s, p, i) == i >= 1 /\ i + Len(p) - 1 <= Len(s) /\ SubSeq(s, i, i + Len(p) - 1) = p
Includes(s, p) == \E i \in 1..(Len(s) - Len(p) + 1) : At(s, p, i)
EndsWith(s, p) == Len(p) <= Len(s) /\ At(s, p, Len(s) - Len(p) + 1)
DropLast(s) == SubSeq(s, 1, Len(s) - 1)

\* The first index from i on whose character is not a space / digit / letter
\* (Len(s) + 1 when there is none): the end of a greedy \s*, \d* or [a-zA-Z]*.
SkipSpaces(s, i) == MinOf({j \in i..(Len(s) + 1) : j = Len(s) + 1 \/ s[j] # " "})
SkipDigits(s, i) == MinOf({j \in i..(Len(s) + 1) : j = Len(s) + 1 \/ ~IsDigit(s[j])})
SkipAlpha(s, i) == MinOf({j \in i..(Len(s) + 1) : j = Len(s) + 1 \/ ~IsAlpha(s[j])})
SkipChar(s, i, ch) == MinOf({j \in i..(Len(s) + 1) : j = Len(s) + 1 \/ s[j] # ch})

\* String.prototype.split(' ') and Array.prototype.join
RECURSIVE Split(_, _)
Split(s, ch) ==
  IF ~InSeq(ch, s) THEN <<s>>
  ELSE LET i == MinOf({j \in 1..Len(s) : s[j] = ch})
       IN <<SubSeq(s, 1, i - 1)>> \o Split(From(s, i + 1), ch)
RECURSIVE Join(_, _)
Join(ws, sep) ==
  IF ws = <<>> THEN <<>>
  ELSE IF Len(ws) = 1 THEN ws[1]
  ELSE ws[1] \o sep \o Join(Tail(ws), sep)
RECURSIVE Flatten(_)
Flatten(ss) == IF ss = <<>> THEN <<>> ELSE ss[1] \o Flatten(Tail(ss))

\* parseInt / parseFloat of a digit string
RECURSIVE ToInt(_)
ToInt(ds) == IF ds = <<>> THEN 0 ELSE 10 * ToInt(DropLast(ds)) + (IndexIn(ds[Len(ds)], Digits) - 1)
RECURSIVE StripZeros(_)
StripZeros(ds) == IF ds # <<>> /\ ds[Len(ds)] = "0" THEN StripZeros(DropLast(ds)) ELSE ds

----------------------------------------------------------------------------
(* ItemCatalog: data/groceryItems *)

\* GROCERY_ITEMS, flattened in declaration order (Object.values(...).flat()).
GROCERY_ITEMS == <<
  \* fruits
  "apple", "apples", "banana", "bananas", "orange", "oranges", "grape", "grapes",
  "strawberry", "strawberries", "blueberry", "blueberries", "raspberry", "raspberries",
  "blackberry", "blackberries", "lemon", "lemons", "lime", "limes", "grapefruit",
  "avocado", "avocados", "pear", "pears", "peach", "peaches", "plum", "plums",
  "cherry", "cherries", "pineapple", "mango", "mangos", "kiwi", "kiwis",
  "watermelon", "cantaloupe", "honeydew", "papaya", "coconut", "coconuts",
  "cranberry", "cranberries", "pomegranate", "dates", "figs", "raisins",
  \* vegetables
  "carrot", "carrots", "celery", "onion", "onions", "potato", "potatoes",
  "sweet potato", "sweet potatoes", "tomato", "tomatoes", "lettuce", "spinach",
  "broccoli", "cauliflower", "cucumber", "cucumbers", "pepper", "peppers",
  "bell pepper", "bell peppers", "jalapeno", "jalapenos", "garlic", "ginger",
  "mushroom", "mushrooms", "zucchini", "squash", "eggplant", "corn",
  "green beans", "asparagus", "cabbage", "kale", "arugula", "radish", "radishes",
  "beets", "turnip", "parsnip", "leek", "leeks", "scallions", "green onions",
  "brussels sprouts", "artichoke", "okra", "snow peas", "snap peas",
  \* proteins
  "chicken", "chicken breast", "chicken thigh", "chicken wings", "whole chicken",
  "beef", "ground beef", "steak", "ribeye", "sirloin", "tenderloin", "brisket",
  "pork", "pork chops", "pork shoulder", "ham", "bacon", "sausage", "bratwurst",
  "turkey", "ground turkey", "turkey breast", "deli turkey", "pepperoni", "salami",
  "salmon", "tuna", "cod", "tilapia", "shrimp", "crab", "lobster", "scallops",
  "mussels", "clams", "sardines", "anchovies", "halibut", "mahi mahi",
  "eggs", "egg whites", "tofu", "tempeh", "seitan",
  \* dairy
  "milk", "whole milk", "skim milk", "2% milk", "almond milk", "oat milk",
  "soy milk", "coconut milk", "rice milk", "lactose free milk",
  "cheese", "cheddar", "mozzarella", "parmesan", "swiss", "gouda", "brie",
  "feta", "goat cheese", "cream cheese", "cottage cheese", "ricotta",
  "provolone", "monterey jack", "blue cheese", "camembert", "manchego",
  "butter", "margarine", "ghee", "yogurt", "greek yogurt", "plain yogurt",
  "vanilla yogurt", "strawberry yogurt", "heavy cream", "half and half",
  "sour cream", "whipped cream", "ice cream", "frozen yogurt",
  \* grains
  "bread", "white bread", "wheat bread", "whole grain bread", "sourdough",
  "rye bread", "pumpernickel", "bagels", "english muffins", "croissants",
  "tortillas", "pita bread", "naan", "rolls", "buns", "hamburger buns",
  "rice", "white rice", "brown rice", "jasmine rice", "basmati rice", "wild rice",
  "pasta", "spaghetti", "penne", "fettuccine", "linguine", "rigatoni", "macaroni",
  "lasagna noodles", "angel hair", "ravioli", "gnocchi",
  "cereal", "oatmeal", "granola", "corn flakes", "cheerios", "rice krispies",
  "flour", "all purpose flour", "wheat flour", "almond flour", "coconut flour",
  "quinoa", "barley", "oats", "steel cut oats", "couscous", "bulgur",
  \* pantry
  "salt", "black pepper", "white pepper", "sugar", "brown sugar", "honey",
  "maple syrup", "agave", "vanilla extract", "almond extract",
  "olive oil", "vegetable oil", "coconut oil", "canola oil", "sesame oil",
  "vinegar", "balsamic vinegar", "apple cider vinegar", "white vinegar",
  "ketchup", "mustard", "dijon mustard", "mayonnaise", "ranch", "bbq sauce",
  "soy sauce", "worcestershire sauce", "hot sauce", "sriracha", "tabasco",
  "peanut butter", "almond butter", "nutella", "jam", "jelly", "preserves",
  "baking powder", "baking soda", "yeast", "cornstarch", "cocoa powder",
  "spices", "garlic powder", "onion powder", "paprika", "cumin", "oregano",
  "basil", "thyme", "rosemary", "sage", "cinnamon", "nutmeg", "ginger powder",
  \* canned
  "canned tomatoes", "tomato sauce", "tomato paste", "marinara sauce",
  "canned beans", "black beans", "kidney beans", "pinto beans", "chickpeas",
  "canned corn", "canned peas", "canned carrots", "canned green beans",
  "chicken broth", "beef broth", "vegetable broth", "stock",
  "canned tuna", "canned salmon", "canned sardines",
  "soup", "chicken soup", "tomato soup", "vegetable soup", "minestrone",
  "pasta sauce", "alfredo sauce", "pesto sauce", "salsa", "pickles",
  "olives", "capers", "coconut milk", "evaporated milk", "condensed milk",
  \* beverages
  "water", "sparkling water", "soda", "cola", "sprite", "orange soda",
  "juice", "orange juice", "apple juice", "grape juice", "cranberry juice",
  "coffee", "instant coffee", "coffee beans", "ground coffee", "espresso",
  "tea", "green tea", "black tea", "herbal tea", "chamomile tea", "earl grey",
  "beer", "wine", "red wine", "white wine", "champagne", "vodka", "whiskey",
  "energy drink", "sports drink", "coconut water", "kombucha",
  \* frozen
  "frozen vegetables", "frozen broccoli", "frozen peas", "frozen corn",
  "frozen fruit", "frozen berries", "frozen mango", "frozen strawberries",
  "frozen pizza", "frozen dinners", "frozen fish", "frozen chicken",
  "ice cream", "frozen yogurt", "popsicles", "frozen waffles", "frozen fries",
  "frozen burgers", "frozen shrimp", "frozen dumplings",
  \* snacks
  "chips", "potato chips", "tortilla chips", "pretzels", "popcorn", "crackers",
  "nuts", "peanuts", "almonds", "walnuts", "cashews", "pistachios",
  "cookies", "chocolate chip cookies", "oreos", "graham crackers",
  "candy", "chocolate", "dark chocolate", "milk chocolate", "gummy bears",
  "trail mix", "granola bars", "protein bars", "rice cakes", "beef jerky",
  \* household
  "toilet paper", "paper towels", "tissues", "napkins", "aluminum foil",
  "plastic wrap", "trash bags", "ziplock bags", "parchment paper",
  "dish soap", "hand soap", "laundry detergent", "fabric softener",
  "bleach", "all purpose cleaner", "glass cleaner", "disinfectant",
  "sponges", "paper plates", "plastic cups", "disposable utensils",
  \* personal
  "shampoo", "conditioner", "body wash", "soap bar", "lotion", "deodorant",
  "toothpaste", "toothbrush", "mouthwash", "floss", "razors", "shaving cream",
  "sunscreen", "lip balm", "band aids", "vitamins", "aspirin", "ibuprofen",
  \* baby_pet
  "diapers", "baby food", "baby formula", "baby wipes", "baby shampoo",
  "dog food", "cat food", "pet treats", "cat litter", "dog treats"
>>
ALL_GROCERY_ITEMS == [i \in 1..Len(GROCERY_ITEMS) |-> Chars(GROCERY_ITEMS[i])]
GROCERY_ITEMS_SET == {ALL_GROCERY_ITEMS[i] : i \in 1..Len(ALL_GROCERY_ITEMS)}

Words(s) == Split(s, " ")
HasSpace(s) == InSeq(" ", s)
EveryIn(as, bs) == \A i \in 1..Len(as) : InSeq(as[i], bs)

\* The plural rule shared by isValidGroceryItem and findBestMatch
Plural(normalized, groceryItem) ==
  \/ EndsWith(normalized, <<"s">>) /\ groceryItem = DropLast(normalized)
  \/ EndsWith(groceryItem, <<"s">>) /\ normalized = DropLast(groceryItem)

isValidGroceryItem(item) ==
  LET normalized == Trim(ToLower(item))
  IN \/ normalized \in GROCERY_ITEMS_SET
     \/ \E k \in 1..Len(ALL_GROCERY_ITEMS) :
          LET groceryItem == ALL_GROCERY_ITEMS[k]
          IN \/ Plural(normalized, groceryItem)
             \/ /\ HasSpace(normalized) \/ HasSpace(groceryItem)
                /\ \/ EveryIn(Words(groceryItem), Words(normalized))
                   \/ EveryIn(Words(normalized), Words(groceryItem))

\* matches.reduce((longest, current) => current.length > longest.length ? ...):
\* the first of the longest matches, in catalog order.
matches(normalized) ==
  {k \in 1..Len(ALL_GROCERY_ITEMS) :
     LET groceryItem == ALL_GROCERY_ITEMS[k]
     IN \/ Plural(normalized, groceryItem)
        \/ /\ HasSpace(normalized) \/ HasSpace(groceryItem)
           /\ EveryIn(Words(groceryItem), Words(normalized))}

Null == <<"null">>

\* A variant of findBestMatch the properties of the catalog must tell from
\* it: it returns the first match in catalog order.
findFirstMatch(item) ==
  LET normalized == Trim(ToLower(item))
      ms == matches(normalized)
  IN IF normalized \in GROCERY_ITEMS_SET THEN normalized
     ELSE IF ms = {} THEN Null
     ELSE ALL_GROCERY_ITEMS[CHOOSE k \in ms : \A j \in ms : k <= j]

findBestMatch(item) ==
  LET normalized == Trim(ToLower(item))
      ms == matches(normalized)
  IN IF normalized \in GROCERY_ITEMS_SET THEN normalized
     ELSE IF ms = {} THEN Null
     ELSE ALL_GROCERY_ITEMS[
            CHOOSE k \in ms :
              \A j \in ms : \/ Len(ALL_GROCERY_ITEMS[j]) < Len(ALL_GROCERY_ITEMS[k])
                            \/ Len(ALL_GROCERY_ITEMS[j]) = Len(ALL_GROCERY_ITEMS[k]) /\ k <= j]

----------------------------------------------------------------------------
(* ItemParser: extractQuantity and parseAndAddItems of GroceryApp *)

Strs(ss) == [i \in 1..Len(ss) |-> Chars(ss[i])]
Range(ss) == {ss[i] : i \in 1..Len(ss)}

\* Where a match of /\s+w\s+/ that starts at i ends (the index after it), or 0.
\* w starts with a non-space, so the leading \s+ takes the whole run of spaces.
WordMatchEnd(s, w, i) ==
  IF i <= Len(s) /\ s[i] = " "
  THEN LET j == SkipSpaces(s, i)
       IN IF At(s, w, j) /\ j + Len(w) <= Len(s) /\ s[j + Len(w)] = " "
          THEN SkipSpaces(s, j + Len(w)) ELSE 0
  ELSE 0

\* A separator of part_002:289-317 as data: "word" is /\s+w\s+/, "char" is
\* /w\s*/, "number" is /\s+(?=\d+\s+)/, "dots" is /\.{2,}/, "spaces" is /\s{3,}/.
MatchEnd(p, s, i) ==
  CASE p.kind = "word" -> WordMatchEnd(s, p.w, i)
    [] p.kind = "char" -> IF s[i] = p.w[1] THEN SkipSpaces(s, i + 1) ELSE 0
    [] p.kind = "number" ->
         IF s[i] = " "
         THEN LET j == SkipSpaces(s, i)
                  k == SkipDigits(s, j)
              IN IF k > j /\ k <= Len(s) /\ s[k] = " " THEN j ELSE 0
         ELSE 0
    [] p.kind = "dots" ->
         IF s[i] = "." /\ SkipChar(s, i, ".") >= i + 2 THEN SkipChar(s, i, ".") ELSE 0
    [] p.kind = "spaces" ->
         IF s[i] = " " /\ SkipSpaces(s, i) >= i + 3 THEN SkipSpaces(s, i) ELSE 0

\* String.prototype.split(regex) and replace(regex with flag g, ' '):
\* leftmost match first, then on from its end
RECURSIVE SplitOn(_, _)
SplitOn(p, s) ==
  LET ms == {i \in 1..Len(s) : MatchEnd(p, s, i) > 0}
  IN IF ms = {} THEN <<s>>
     ELSE <<SubSeq(s, 1, MinOf(ms) - 1)>> \o SplitOn(p, From(s, MatchEnd(p, s, MinOf(ms))))
ReplaceWord(s, w) == Join(SplitOn([kind |-> "word", w |-> w], s), <<" ">>)

fillerWords == Strs(<<
  "i need", "i want", "get me", "buy", "purchase", "pick up",
  "we need", "let me get", "can you add", "add to the list",
  "put on the list", "write down", "remember to get">>)

\* part_002:283-286, one filler: /^filler\s+/ removed, then /\s+filler\s+/g -> ' '
RemoveFiller(s, f) ==
  LET a == IF At(s, f, 1) /\ Len(f) + 1 <= Len(s) /\ s[Len(f) + 1] = " "
           THEN From(s, SkipSpaces(s, Len(f) + 1)) ELSE s
  IN ReplaceWord(a, f)
RECURSIVE RemoveFillers(_, _)
RemoveFillers(s, k) ==
  IF k > Len(fillerWords) THEN s
  ELSE LET next == RemoveFiller(s, fillerWords[k])
       IN IF next = s THEN RemoveFillers(s, k + 1) ELSE RemoveFillers(next, k + 1)

separators == <<
  [kind |-> "word", w |-> Chars("and")],
  [kind |-> "word", w |-> Chars("also")],
  [kind |-> "word", w |-> Chars("plus")],
  [kind |-> "word", w |-> Chars("as well as")],
  [kind |-> "word", w |-> Chars("along with")],
  [kind |-> "word", w |-> Chars("then")],
  [kind |-> "word", w |-> Chars("next")],
  [kind |-> "word", w |-> Chars("after that")],
  [kind |-> "word", w |-> Chars("some")],
  [kind |-> "word", w |-> Chars("a few")],
  [kind |-> "word", w |-> Chars("couple of")],
  [kind |-> "char", w |-> Chars(",")],
  [kind |-> "char", w |-> Chars(";")],
  [kind |-> "number", w |-> <<>>],
  [kind |-> "dots", w |-> <<>>],
  [kind |-> "spaces", w |-> <<>>] >>

NonBlank(part) == Trim(part) # <<>>
NonEmpty(word) == word # <<>>

\* parsedItems.flatMap(item => item.split(separator).filter(part => part.trim().length > 0))
RECURSIVE FlatSplit(_, _)
FlatSplit(p, parts) ==
  IF parts = <<>> THEN <<>>
  ELSE SelectSeq(SplitOn(p, parts[1]), NonBlank) \o FlatSplit(p, Tail(parts))
RECURSIVE ApplySeparators(_, _)
ApplySeparators(parts, k) ==
  IF k > Len(separators) THEN parts
  ELSE LET next == FlatSplit(separators[k], parts)
       IN IF next = parts THEN ApplySeparators(parts, k + 1) ELSE ApplySeparators(next, k + 1)

compoundItems == Strs(<<
  "ice cream", "olive oil", "peanut butter", "orange juice", "apple juice",
  "ground beef", "chicken breast", "hot dogs", "potato chips", "corn flakes",
  "green beans", "sweet potato", "bell pepper", "black beans", "brown rice",
  "whole wheat", "greek yogurt", "coconut milk", "almond milk", "soy sauce",
  "maple syrup", "baking soda", "vanilla extract", "cream cheese", "cottage cheese",
  "hand soap", "toilet paper", "paper towels">>)

\* The while loop of part_002:345-359
RECURSIVE processedItems(_)
processedItems(words) ==
  IF words = <<>> THEN <<>>
  ELSE IF Len(words) >= 2 /\ InSeq(words[1] \o <<" ">> \o words[2], compoundItems)
       THEN <<words[1] \o <<" ">> \o words[2]>> \o processedItems(SubSeq(words, 3, Len(words)))
       ELSE <<words[1]>> \o processedItems(Tail(words))

\* part_002:320-362
Segments(normalized) ==
  LET parsedItems == ApplySeparators(<<normalized>>, 1)
  IN IF Len(parsedItems) = 1 /\ HasSpace(parsedItems[1])
     THEN processedItems(SelectSeq(Words(parsedItems[1]), NonEmpty))
     ELSE parsedItems

nonGroceryWords == Strs(<<
  "a", "an", "the", "this", "that", "these", "those", "my", "your", "our",
  "and", "or", "but", "so", "yet", "for", "nor",
  "of", "to", "in", "on", "at", "by", "for", "with", "without", "from",
  "up", "down", "over", "under", "above", "below", "between", "through",
  "was", "were", "is", "are", "am", "be", "been", "being", "have", "has",
  "had", "do", "does", "did", "will", "would", "could", "should", "might",
  "can", "get", "getting", "got", "need", "needed", "want", "wanted",
  "buy", "buying", "bought", "pick", "picking", "picked", "take", "taking",
  "took", "put", "putting", "add", "adding", "added", "go", "going", "went",
  "um", "uh", "er", "ah", "well", "like", "you know", "i mean", "actually",
  "basically", "literally", "really", "very", "quite", "pretty", "sort of",
  "kind of", "thinking", "thought", "think", "about", "maybe", "perhaps",
  "i", "you", "he", "she", "it", "we", "they", "me", "him", "her", "us", "them",
  "also", "too", "very", "really", "quite", "rather", "pretty", "more", "most",
  "less", "least", "much", "many", "few", "little", "enough", "too much",
  "some", "any", "all", "every", "each", "both", "either", "neither",
  "several", "many", "much", "few", "little", "more", "most", "less", "least",
  "now", "then", "next", "first", "second", "last", "finally", "after",
  "before", "during", "while", "when", "where", "why", "how",
  "lets see", "let me see", "what else", "thats it", "that is it", "im done",
  "i am done", "thats all", "that is all", "nothing else", "no more",
  "stop", "finish", "end", "complete", "done", "okay", "alright", "right">>)

wordToNumber == Strs(<<"one", "two", "three", "four", "five", "six", "seven", "eight", "nine", "ten">>)
specialWords == Strs(<<"dozen", "pair", "few">>)
specialQuantities == <<12, 2, 3>>
articles == Strs(<<"a", "an", "the">>)

\* /^(one|two|...|ten|a dozen|a pair|a few)/ of part_002:418: a prefix test
QuantityPrefix(s) ==
  \/ \E k \in 1..Len(wordToNumber) : At(s, wordToNumber[k], 1)
  \/ \E k \in 1..Len(specialWords) : At(s, <<"a", " ">> \o specialWords[k], 1)

\* replace(/^(a|an|the)\s+/i, '')
StripArticle(s) ==
  LET as == {k \in 1..Len(articles) :
               /\ At(s, articles[k], 1)
               /\ Len(articles[k]) + 1 <= Len(s)
               /\ s[Len(articles[k]) + 1] = " "}
  IN IF as = {} THEN s ELSE From(s, SkipSpaces(s, Len(articles[MinOf(as)]) + 1))

\* replace(/[.,!?]+$/, '')
RECURSIVE StripPunctuation(_)
StripPunctuation(s) ==
  IF s # <<>> /\ s[Len(s)] \in {".", ",", "!", "?"} THEN StripPunctuation(DropLast(s)) ELSE s

\* replace(/\s+/g, ' ').trim()
Collapse(s) == Join(SelectSeq(Words(s), NonEmpty), <<" ">>)

\* The map of part_002:413-432
Cleaned(item) ==
  LET t == Trim(item)
      a == IF (t # <<>> /\ IsDigit(t[1])) \/ QuantityPrefix(t) THEN t ELSE StripArticle(t)
  IN Collapse(StripPunctuation(a))

\* The filter of part_002:433-444
Kept(item) ==
  /\ Len(item) >= 2
  /\ ~InSeq(ToLower(item), nonGroceryWords)
  /\ isValidGroceryItem(ToLower(item))

cleanedItems(transcript) ==
  LET parts == Segments(RemoveFillers(Trim(ToLower(transcript)), 1))
  IN SelectSeq([k \in 1..Len(parts) |-> Cleaned(parts[k])], Kept)

\* A number is <<whole, fraction digits without trailing zeros>>; a missing
\* quantity or unit (undefined) is <<>>.
Undefined == <<>>
Number(whole, frac) == <<whole, StripZeros(frac)>>
ParseFloat(ds, frac) == Number(ToInt(ds), frac)
NoMatch == [matched |-> FALSE, quantity |-> Undefined, unit |-> Undefined, itemName |-> <<>>]
Match(q, u, n) == [matched |-> TRUE, quantity |-> q, unit |-> u, itemName |-> n]

\* \s*([a-zA-Z]*)\s*(.+)$ from index q on, with the regex engine's
\* backtracking: each group is greedy, and (.+) needs one character, which
\* the nearest group before it that took something gives back.
NumberRest(s, q) ==
  LET a == SkipSpaces(s, q)
      b == SkipAlpha(s, a)
      e == SkipSpaces(s, b)
  IN IF e <= Len(s) THEN Match(Undefined, SubSeq(s, a, b - 1), From(s, e))
     ELSE IF e > b THEN Match(Undefined, SubSeq(s, a, b - 1), <<" ">>)
     ELSE IF b > a THEN Match(Undefined, SubSeq(s, a, b - 2), <<s[b - 1]>>)
     ELSE IF a > q THEN Match(Undefined, <<>>, <<" ">>)
     ELSE NoMatch

\* quantityPatterns[0]: /^(\d+(?:\.\d+)?)\s*([a-zA-Z]*)\s*(.+)$/
Pattern0(s) ==
  LET d == SkipDigits(s, 1)
      f == IF d <= Len(s) /\ s[d] = "." THEN SkipDigits(s, d + 1) ELSE d
      whole == SubSeq(s, 1, d - 1)
      withFraction == NumberRest(s, f)
      without == NumberRest(s, d)
  IN IF d = 1 THEN NoMatch
     ELSE IF f > d + 1 /\ withFraction.matched
       THEN [withFraction EXCEPT !.quantity = ParseFloat(whole, SubSeq(s, d + 1, f - 1))]
     ELSE IF f > d + 2
       THEN Match(ParseFloat(whole, SubSeq(s, d + 1, f - 2)), <<>>, <<s[f - 1]>>)
     ELSE IF without.matched
       THEN [without EXCEPT !.quantity = ParseFloat(whole, <<>>)]
     ELSE IF d > 2
       THEN Match(ParseFloat(SubSeq(s, 1, d - 2), <<>>), <<>>, <<s[d - 1]>>)
     ELSE NoMatch

\* \s+(.+)$ from index q on
SpaceRest(s, q) ==
  LET e == SkipSpaces(s, q)
  IN IF e > q /\ e <= Len(s) THEN From(s, e)
     ELSE IF e > q + 1 THEN <<" ">>
     ELSE <<>>

\* quantityPatterns[1]: /^(one|two|...|ten)\s+(.+)$/i
Pattern1(s) ==
  LET ks == {k \in 1..Len(wordToNumber) :
               /\ At(ToLower(s), wordToNumber[k], 1)
               /\ SpaceRest(s, Len(wordToNumber[k]) + 1) # <<>>}
  IN IF ks = {} THEN NoMatch
     ELSE Match(Number(MinOf(ks), <<>>), Undefined,
                SpaceRest(s, Len(wordToNumber[MinOf(ks)]) + 1))

\* quantityPatterns[2]: /^(a\s+dozen|a\s+pair|a\s+few)\s+(.+)$/i;
\* specialQuantities is keyed by the phrase with one space
Pattern2(s) ==
  LET j == SkipSpaces(s, 2)
      ks == {k \in 1..Len(specialWords) :
               /\ At(ToLower(s), <<"a">>, 1) /\ j > 2
               /\ At(ToLower(s), specialWords[k], j)
               /\ SpaceRest(s, j + Len(specialWords[k])) # <<>>}
  IN IF ks = {} THEN NoMatch
     ELSE Match(IF j = 3 THEN Number(specialQuantities[MinOf(ks)], <<>>) ELSE Undefined,
                Undefined, SpaceRest(s, j + Len(specialWords[MinOf(ks)])))

\* The loop of part_002:239-266: the first pattern that matches decides
FirstMatch(m0, m1, m2, itemName) ==
  IF m0.matched THEN m0
  ELSE IF m1.matched THEN m1
  ELSE IF m2.matched THEN m2
  ELSE [NoMatch EXCEPT !.itemName = itemName]

extractQuantity(itemName) ==
  FirstMatch(Pattern0(itemName), Pattern1(itemName), Pattern2(itemName), itemName)

\* Math.random().toString(36): n ids that nothing holds yet
RECURSIVE FreshIds(_, _)
FreshIds(used, n) ==
  IF n = 0 THEN <<>>
  ELSE LET id == MinOf({j \in 1..(Cardinality(used) + 1) : j \notin used})
       IN <<id>> \o FreshIds(used \cup {id}, n - 1)

\* A variant of Falsy the properties of the quantities must tell from it
FalsyUndefined(quantity) == quantity = Undefined

Falsy(quantity) == quantity = Undefined \/ (quantity[1] = 0 /\ quantity[2] = <<>>)

\* The map of part_002:448-462, one fragment
\* bestMatch = findBestMatch(finalName) || finalName, then the object literal
bestMatch(found, finalName) == IF found = Null THEN finalName ELSE found
Capitalized(name) == <<UpperChar(name[1])>> \o Tail(name)
ItemNamed(q, finalName, id) ==
  [id |-> id,
   name |-> Capitalized(bestMatch(findBestMatch(finalName), finalName)),
   completed |-> FALSE,
   quantity |-> IF Falsy(q.quantity) THEN Undefined ELSE q.quantity,
   unit |-> q.unit]
\* finalName = nameWithoutQuantity || itemName
ItemOf(q, itemName, id) ==
  ItemNamed(q, IF q.itemName # <<>> THEN q.itemName ELSE itemName, id)
ShoppingItem(itemName, id) == ItemOf(extractQuantity(itemName), itemName, id)

\* The transcripts that the specifications below hand to the parser.  What a
\* transcript parses to does not depend on the state, so these are parsed once.
Utterances ==
  Range(Strs(<<"apples", "3 eggs", "a dozen eggs", "apples and apples",
               "2 apples and a dozen eggs", "peanut butter and jelly",
               "peanut butter jelly", "2 peanut butter and jelly", "ice cream cheese",
               "i need raspberries", "apples and bananas", "and bananas",
               "apples and milk", "hello", "0 apples and milk">>))
fragments(transcript) ==
  LET cleaned == cleanedItems(transcript)
  IN [k \in 1..Len(cleaned) |-> ShoppingItem(cleaned[k], 0)]
Parsed == [transcript \in Utterances |-> fragments(transcript)]

WithIds(made, ids) == [k \in 1..Len(made) |-> [made[k] EXCEPT !.id = ids[k]]]
Fresh(made, used) == WithIds(made, FreshIds(used, Len(made)))
newItems(transcript, used) ==
  Fresh(IF transcript \in Utterances THEN Parsed[transcript] ELSE fragments(transcript), used)

\* The updater of part_002:465-478
Known(prevItems, newItem) ==
  \E k \in 1..Len(prevItems) : ToLower(prevItems[k].name) = ToLower(newItem.name)
itemsToAdd(prevItems, new) == SelectSeq(new, LAMBDA newItem : ~Known(prevItems, newItem))

----------------------------------------------------------------------------
(* useSpeechRecognition: one session controller *)

\* A recognition object built by the effect of useSpeechRecognition.ts:51-180.
\* isListening, mode and items are the values its listeners closed over (mode is
\* read by the adding session's onEnd, items by the shopping session's
\* onResult -> checkOffItems); st is the engine's state for this object.
NewRecognition(c, listening, m, its) ==
  [isListening |-> listening,
   mode |-> IF c = "add" THEN m ELSE "idle",
   items |-> IF c = "shop" THEN its ELSE <<>>,
   st |-> "idle"]

NoRecognition == [isListening |-> FALSE, mode |-> "idle", items |-> <<>>, st |-> "none"]

HasRec(h) == h.recognitionRef.st # "none"

InitHook(c, supported) ==
  [isListening |-> FALSE,
   manuallyStopped |-> FALSE,
   manuallyStoppedRef |-> FALSE,
   transcript |-> <<>>,
   finalTranscript |-> <<>>,
   recognitionRef |-> IF supported THEN NewRecognition(c, FALSE, "idle", <<>>)
                      ELSE NoRecognition,
   orphans |-> <<>>,            \* started objects recognitionRef no longer holds
   timeoutRef |-> FALSE,        \* the restart timer timeoutRef holds is pending
   staleRestarts |-> 0,         \* pending restart timers timeoutRef no longer holds
   stoppedRestarts |-> 0,       \* those of them that were pending at a stopListening()
   inactivityTimeoutRef |-> FALSE,
   autoStopTimeoutRef |-> FALSE,
   safety |-> <<>>,             \* per stop(): 2 = the 50 ms and 150 ms attempts pending, 1 = the 150 ms one
   calls |-> <<>>]              \* engine primitives the last step invoked, in order

\* The React state of the hook: a change of it re-renders GroceryApp.
StateOf(h) == <<h.isListening, h.manuallyStopped, h.transcript, h.finalTranscript>>

\* recognition.abort(): ignored unless the object is started.
Aborted(o) == IF o.st \in {"running", "stopping"} THEN [o EXCEPT !.st = "aborting"] ELSE o

\* recognition.stop(): ignored unless the object is running.
Stopped(o) == IF o.st = "running" THEN [o EXCEPT !.st = "stopping"] ELSE o

\* try { recognitionRef.current.start() }: InvalidStateError when already started.
StartThrows(h) == h.recognitionRef.st # "idle"

\* A variant of startListening the properties of the session must tell from
\* it: it goes on without a supported engine.
StartListeningUnguarded(h) ==
  LET h1 == [h EXCEPT !.isListening = TRUE,
                      !.manuallyStopped = FALSE,
                      !.manuallyStoppedRef = FALSE,
                      !.transcript = <<>>,
                      !.finalTranscript = <<>>,
                      !.calls = Append(@, "start")]
  IN IF StartThrows(h)
     THEN [h1 EXCEPT !.isListening = FALSE]
     ELSE [h1 EXCEPT !.recognitionRef.st = "running"]

StartListening(h) ==
  IF ~isSupported \/ ~HasRec(h) THEN h
  ELSE LET h1 == [h EXCEPT !.isListening = TRUE,
                           !.manuallyStopped = FALSE,
                           !.manuallyStoppedRef = FALSE,
                           !.transcript = <<>>,
                           !.finalTranscript = <<>>,
                           !.calls = Append(@, "start")]
       IN IF StartThrows(h)
          THEN [h1 EXCEPT !.isListening = FALSE]
          ELSE [h1 EXCEPT !.recognitionRef.st = "running"]

\* stopListening, lines 229-247 and 266-286: the flags, the timers it clears
\* (a restart timer timeoutRef no longer holds stays pending), the two attempts
\* it schedules.
StopFlags(h) ==
  [h EXCEPT !.isListening = FALSE,
            !.manuallyStopped = TRUE,
            !.manuallyStoppedRef = TRUE,
            !.timeoutRef = FALSE,
            !.staleRestarts = 0,
            !.stoppedRestarts = @ + h.staleRestarts,
            !.inactivityTimeoutRef = FALSE,
            !.autoStopTimeoutRef = FALSE,
            !.safety = Append(@, 2)]

\* stopListening, lines 250-264: abort() three times; if the first throws,
\* stop() three times; if that throws too, give up.
StopEngine(h, abortThrows, stopThrows) ==
  IF ~abortThrows
  THEN [h EXCEPT !.recognitionRef = Aborted(@),
                 !.calls = @ \o <<"abort", "abort", "abort">>]
  ELSE IF ~stopThrows
  THEN [h EXCEPT !.recognitionRef = Stopped(@),
                 !.calls = @ \o <<"abort", "stop", "stop", "stop">>]
  ELSE [h EXCEPT !.calls = @ \o <<"abort", "stop">>]

\* Two variants of stopListening the properties of the session must tell from
\* it: one clears isListening only when abort() did not throw, one leaves a
\* restart timer armed.
StopListeningUnlessThrown(h, abortThrows, stopThrows) ==
  IF ~HasRec(h) THEN h
  ELSE StopEngine([StopFlags(h) EXCEPT !.isListening = h.isListening /\ abortThrows],
                  abortThrows, stopThrows)

StopListeningRestarting(h, abortThrows, stopThrows) ==
  IF ~HasRec(h) THEN h
  ELSE StopEngine([StopFlags(h) EXCEPT !.timeoutRef = TRUE], abortThrows, stopThrows)

StopListening(h, abortThrows, stopThrows) ==
  IF ~HasRec(h) THEN h ELSE StopEngine(StopFlags(h), abortThrows, stopThrows)

ResetTranscript(h) == [h EXCEPT !.transcript = <<>>, !.finalTranscript = <<>>]

\* The 50 ms / 150 ms attempts of stopListening: abort whatever recognitionRef holds.
SafetyAbort(h, throws) ==
  IF ~HasRec(h) THEN h
  ELSE [h EXCEPT !.recognitionRef = IF throws THEN @ ELSE Aborted(@),
                 !.calls = Append(@, "abort")]

\* 'audioend' listener of object o.
OnAudioEnd(h, o) ==
  IF o.isListening /\ Continuous /\ ~h.manuallyStoppedRef
  THEN [h EXCEPT !.staleRestarts = IF h.timeoutRef THEN @ + 1 ELSE @,
                 !.timeoutRef = TRUE]
  ELSE h

\* The restart continuation of the 'audioend' listener.  It was armed by a
\* listener whose isListening is true, and reads the same constant.
RestartContinuation(h) ==
  IF ~h.manuallyStoppedRef /\ HasRec(h)
  THEN [h EXCEPT !.recognitionRef.st = IF StartThrows(h) THEN @ ELSE "running",
                 !.calls = Append(@, "start")]
  ELSE h

\* 'result' listener of object o: the two silence timers, then the transcripts.
OnResultTimers(h, o, c) ==
  LET h1 == [h EXCEPT !.inactivityTimeoutRef = (Timeout(c) > 0 /\ o.isListening)]
  IN IF o.isListening /\ ~h.manuallyStoppedRef
     THEN [h1 EXCEPT !.autoStopTimeoutRef = TRUE]
     ELSE h1

\* setFinalTranscript(prev => prev + finalText) / setTranscript(interimTranscript)
OnResultState(h, text, final) ==
  IF text = <<>> THEN h
  ELSE IF final THEN [h EXCEPT !.finalTranscript = @ \o text]
  ELSE [h EXCEPT !.transcript = text]

\* The inactivity timer's callback (armed only by a listener whose isListening is true).
InactivityTimeout(h, abortThrows) ==
  IF ~HasRec(h) THEN h
  ELSE IF abortThrows THEN [h EXCEPT !.calls = Append(@, "abort")]
  ELSE [h EXCEPT !.recognitionRef = Aborted(@),
                 !.isListening = FALSE,
                 !.calls = Append(@, "abort")]

\* The auto-stop timer's callback.
AutoStopTimeout(h, stopThrows) ==
  IF h.manuallyStoppedRef \/ ~HasRec(h) THEN h
  ELSE IF stopThrows THEN [h EXCEPT !.calls = Append(@, "stop")]
  ELSE [h EXCEPT !.recognitionRef = Stopped(@),
                 !.isListening = FALSE,
                 !.calls = Append(@, "stop")]

\* A variant of ReportsError the properties of the errors must tell from it.
ReportsEveryError(kind) == TRUE

\* 'error' listener.
ErrorKinds == {"aborted", "no-speech", "network", "not-allowed"}
ReportsError(kind) == kind # "aborted"
OnError(h, kind) ==
  IF kind \in {"network", "not-allowed"} THEN [h EXCEPT !.isListening = FALSE] ELSE h

\* 'end' listener: onEnd is called first, then the flags are settled.
FiresOnEnd(h) == ~h.manuallyStoppedRef
OnEnd(h) ==
  LET h1 == IF FiresOnEnd(h) THEN [h EXCEPT !.calls = Append(@, "onEnd")] ELSE h
  IN IF ~Continuous \/ h.manuallyStoppedRef
     THEN [h1 EXCEPT !.isListening = FALSE,
                     !.manuallyStopped = FALSE,
                     !.manuallyStoppedRef = FALSE]
     ELSE h1

\* The effect after a re-render: the cleanup clears the referenced timers, the
\* body builds a new recognition object.  A started object is left running.
Rerender(h, c, m, its) ==
  IF ~HasRec(h) THEN h
  ELSE [h EXCEPT !.timeoutRef = FALSE,
                 !.inactivityTimeoutRef = FALSE,
                 !.autoStopTimeoutRef = FALSE,
                 !.orphans = IF h.recognitionRef.st # "idle"
                             THEN Append(@, h.recognitionRef) ELSE @,
                 !.recognitionRef = NewRecognition(c, h.isListening, m, its)]

\* Recognition objects of a hook that the engine may send events for:
\* 0 is the one recognitionRef holds, i > 0 the i-th orphan.
Obj(h, k) == IF k = 0 THEN h.recognitionRef ELSE h.orphans[k]
Live(h) == {k \in 0..Len(h.orphans) : Obj(h, k).st \in {"running", "stopping", "aborting"}}
\* Idle: the controller reports not listening and no object of it is started.
Idle(h) == ~h.isListening /\ Live(h) = {}
RemoveAt(s, k) == SubSeq(s, 1, k - 1) \o SubSeq(s, k + 1, Len(s))
Ended(h, k) ==
  IF k = 0 THEN [h EXCEPT !.recognitionRef.st = "idle"]
  ELSE [h EXCEPT !.orphans = RemoveAt(@, k)]

----------------------------------------------------------------------------
(* GroceryApp: check-off matching *)

\* The filter of checkOffItems (part_002:158-183) for one item
IsMatched(item, transcript) ==
  LET spokenWords == Words(ToLower(transcript))
      itemName == ToLower(item.name)
      itemWords == Words(itemName)
      exactWordMatch == \E i \in 1..Len(spokenWords) : InSeq(spokenWords[i], itemWords)
      partialMatch == \E i \in 1..Len(spokenWords) :
                        Includes(itemName, spokenWords[i]) /\ Len(spokenWords[i]) > 2
      compoundMatch == \E i \in 1..Len(spokenWords) :
                         Includes(spokenWords[i], itemName) /\ HasSpace(itemName)
  IN ~item.completed /\ (exactWordMatch \/ partialMatch \/ compoundMatch)

matchedItems(its, transcript) == {its[k].id : k \in {j \in 1..Len(its) : IsMatched(its[j], transcript)}}

\* A variant of Completed the properties of the check-off must tell from it:
\* it completes the first matched item only.
CompletedFirst(prev, ids) ==
  [k \in 1..Len(prev) |->
     IF prev[k].id \in ids /\ \A j \in 1..(k - 1) : prev[j].id \notin ids
     THEN [prev[k] EXCEPT !.completed = TRUE] ELSE prev[k]]

\* prev.map(item => matched ? {...item, completed: true} : item)
Completed(prev, ids) ==
  [k \in 1..Len(prev) |-> IF prev[k].id \in ids THEN [prev[k] EXCEPT !.completed = TRUE] ELSE prev[k]]
\* prev.map(item => item.id === id ? {...item, completed: !item.completed} : item)
Toggled(prev, id) ==
  [k \in 1..Len(prev) |-> IF prev[k].id = id THEN [prev[k] EXCEPT !.completed = ~@] ELSE prev[k]]
Removed(prev, id) == SelectSeq(prev, LAMBDA item : item.id # id)
allCompleted(updatedItems) ==
  Len(updatedItems) > 0 /\ \A k \in 1..Len(updatedItems) : updatedItems[k].completed

----------------------------------------------------------------------------
(* GroceryApp: the handlers, as functions of the component's state *)

Report(type, text) == [type |-> type, text |-> text]
Op(name, arg) == [op |-> name, arg |-> arg]
Seen(s, name, arg) == IF s.observed THEN Op(name, arg) ELSE Op("step", <<>>)

\* The state a handler starts from: events and the controllers' calls are
\* those of the step being taken; setsItems records a call of setItems.
Now ==
  [hook |-> [c \in Ctl |-> [hook[c] EXCEPT !.calls = <<>>]],
   mode |-> mode,
   hasStartedShopping |-> hasStartedShopping,
   items |-> items,
   accumulatedTranscript |-> accumulatedTranscript,
   debouncedTranscript |-> debouncedTranscript,
   debounceTimer |-> debounceTimer,
   itemsToAddRef |-> itemsToAddRef,
   settle |-> settle,
   resetTimers |-> resetTimers,
   endTimers |-> endTimers,
   events |-> <<>>,
   setsItems |-> FALSE]

handleStopAddingItems(a, abortThrows, stopThrows) ==
  [a EXCEPT !.mode = "idle",
            !.hook["add"] = StopListening(@, abortThrows, stopThrows)]

handleStopShopping(a, abortThrows, stopThrows) ==
  [a EXCEPT !.mode = "idle",
            !.hasStartedShopping = FALSE,
            !.hook["shop"] = StopListening(@, abortThrows, stopThrows)]

handleStartAddingItems(a, abortThrows, stopThrows) ==
  IF ~isSupported THEN [a EXCEPT !.events = Append(@, Report("notSupported", <<>>))]
  ELSE [a EXCEPT !.hook["shop"] = IF a.mode = "shopping"
                                  THEN StopListening(@, abortThrows, stopThrows) ELSE @,
                 !.mode = "adding",
                 !.hook["add"] = ResetTranscript(@),
                 !.settle["add"] = @ + 1]

\* A variant of handleStartShopping the properties of the modes must tell
\* from it: it leaves the adding session alone.
handleStartShoppingOnly(a, abortThrows, stopThrows) ==
  IF Len(a.items) = 0 THEN [a EXCEPT !.events = Append(@, Report("noItems", <<>>))]
  ELSE IF ~isSupported THEN [a EXCEPT !.events = Append(@, Report("notSupported", <<>>))]
  ELSE [a EXCEPT !.mode = "shopping",
                 !.hasStartedShopping = TRUE,
                 !.hook["shop"] = ResetTranscript(@),
                 !.settle["shop"] = @ + 1]

\* A variant of handleStartShopping the properties of the empty list must
\* tell from it: it does not look at the list.
handleStartShoppingAnyList(a, abortThrows, stopThrows) ==
  IF ~isSupported THEN [a EXCEPT !.events = Append(@, Report("notSupported", <<>>))]
  ELSE [a EXCEPT !.hook["add"] = IF a.mode = "adding"
                                 THEN StopListening(@, abortThrows, stopThrows) ELSE @,
                 !.mode = "shopping",
                 !.hasStartedShopping = TRUE,
                 !.hook["shop"] = ResetTranscript(@),
                 !.settle["shop"] = @ + 1]

handleStartShopping(a, abortThrows, stopThrows) ==
  IF Len(a.items) = 0 THEN [a EXCEPT !.events = Append(@, Report("noItems", <<>>))]
  ELSE IF ~isSupported THEN [a EXCEPT !.events = Append(@, Report("notSupported", <<>>))]
  ELSE [a EXCEPT !.hook["add"] = IF a.mode = "adding"
                                 THEN StopListening(@, abortThrows, stopThrows) ELSE @,
                 !.mode = "shopping",
                 !.hasStartedShopping = TRUE,
                 !.hook["shop"] = ResetTranscript(@),
                 !.settle["shop"] = @ + 1]

\* The updater of setItems in handleToggleItem and in checkOffItems: the
\* completion report and the 3 s reset are issued from inside it.
handleToggleItem(a, id) ==
  LET updatedItems == Toggled(a.items, id)
  IN IF allCompleted(updatedItems)
     THEN [a EXCEPT !.items = updatedItems, !.setsItems = TRUE,
                    !.events = Append(@, Report("allComplete", <<>>)),
                    !.resetTimers["toggle"] = @ + 1]
     ELSE [a EXCEPT !.items = updatedItems, !.setsItems = TRUE]

handleRemoveItem(a, id) == [a EXCEPT !.items = Removed(@, id), !.setsItems = TRUE]

handleClearList(a, abortThrows, stopThrows) ==
  [a EXCEPT !.items = <<>>,
            !.setsItems = TRUE,
            !.hasStartedShopping = FALSE,
            !.hook["add"] = IF a.mode = "adding"
                            THEN StopListening(@, abortThrows, stopThrows) ELSE @,
            !.hook["shop"] = IF a.mode = "shopping"
                             THEN StopListening(@, abortThrows, stopThrows) ELSE @,
            !.mode = "idle"]

\* checkOffItems of the render whose items are closureItems (useCallback [items])
checkOffItems(a, closureItems, transcript) ==
  LET matched == matchedItems(closureItems, transcript)
      updatedItems == Completed(a.items, matched)
  IN IF matched = {} THEN a
     ELSE IF allCompleted(updatedItems)
     THEN [a EXCEPT !.items = updatedItems, !.setsItems = TRUE,
                    !.events = Append(@, Report("allComplete", <<>>)),
                    !.resetTimers["checkoff"] = @ + 1]
     ELSE [a EXCEPT !.items = updatedItems, !.setsItems = TRUE,
                    !.events = Append(@, Report("itemFound", <<>>))]

\* Ids that an item or a closure of checkOffItems holds
ItemIds(its) == {its[k].id : k \in 1..Len(its)}
UsedIds(a) ==
  ItemIds(a.items) \cup ItemIds(a.hook["shop"].recognitionRef.items)
    \cup UNION {ItemIds(a.hook["shop"].orphans[k].items) : k \in 1..Len(a.hook["shop"].orphans)}

\* part_002:464-482: the setItems updater, or the empty array in the ref
\* A variant of Added the properties of the list must tell from it: the new
\* items go in front.
AddedInFront(a, toAdd) ==
  [a EXCEPT !.items = toAdd \o @,
            !.setsItems = TRUE,
            !.itemsToAddRef = IF Len(toAdd) > 0 THEN "some" ELSE "null"]

Added(a, toAdd) ==
  [a EXCEPT !.items = @ \o toAdd,
            !.setsItems = TRUE,
            !.itemsToAddRef = IF Len(toAdd) > 0 THEN "some" ELSE "null"]
Recognized(a, new) ==
  IF Len(new) > 0 THEN Added(a, itemsToAdd(a.items, new))
  ELSE [a EXCEPT !.itemsToAddRef = "none"]
parseAndAddItems(a, transcript) ==
  Recognized([a EXCEPT !.events = Append(@, Report("parse", transcript))],
             newItems(transcript, UsedIds(a)))

stopPhrases == Strs(<<"that's it", "done", "list complete", "stop", "finish">>)

\* A variant of addOnResult the properties of the accumulator must tell from
\* it: the newest final text goes in front.
addOnResultInFront(a, transcript, isFinal, abortThrows, stopThrows) ==
  IF isFinal /\ Trim(transcript) # <<>>
  THEN [a EXCEPT !.accumulatedTranscript = <<" ">> \o Trim(transcript) \o @]
  ELSE a

\* onResult / onEnd / onError passed to the two useSpeechRecognition calls
addOnResult(a, transcript, isFinal, abortThrows, stopThrows) ==
  IF isFinal /\ Trim(transcript) # <<>>
  THEN IF \E k \in 1..Len(stopPhrases) : Includes(Trim(ToLower(transcript)), stopPhrases[k])
       THEN handleStopAddingItems(a, abortThrows, stopThrows)
       ELSE [a EXCEPT !.accumulatedTranscript = @ \o <<" ">> \o Trim(transcript)]
  ELSE a

\* A variant of shopOnResult the properties of interim text must tell from
\* it: it hands the matcher interim text as well.
shopOnResultAnyText(a, o, transcript, isFinal) ==
  IF Trim(transcript) # <<>> THEN checkOffItems(a, o.items, Trim(transcript)) ELSE a

\* A variant of shopOnResult the properties of the two sessions must tell
\* from it: the final text is put into the accumulator as well.
shopOnResultAccumulating(a, o, transcript, isFinal) ==
  IF isFinal /\ Trim(transcript) # <<>>
  THEN [checkOffItems(a, o.items, Trim(transcript)) EXCEPT
          !.accumulatedTranscript = @ \o <<" ">> \o Trim(transcript)]
  ELSE a

shopOnResult(a, o, transcript, isFinal) ==
  IF isFinal /\ Trim(transcript) # <<>> THEN checkOffItems(a, o.items, Trim(transcript)) ELSE a

addOnEnd(a, o) == IF o.mode = "adding" THEN [a EXCEPT !.endTimers = @ + 1] ELSE a

onError(a) == [a EXCEPT !.events = Append(@, Report("error", <<>>))]

----------------------------------------------------------------------------
(* GroceryApp: one step = a handler, then the render and effects it causes *)

\* React renders again when a state value changed (setItems always passes a
\* new array); then every useSpeechRecognition effect runs again, the
\* debounce timer is re-armed when accumulatedTranscript changed, and the
\* toast effect on [items] reports what itemsToAddRef holds.
Commit(a, op) ==
  LET renders == \/ a.setsItems
                 \/ a.mode # mode
                 \/ a.hasStartedShopping # hasStartedShopping
                 \/ a.accumulatedTranscript # accumulatedTranscript
                 \/ a.debouncedTranscript # debouncedTranscript
                 \/ \E c \in Ctl : StateOf(a.hook[c]) # StateOf(hook[c])
      toasts == a.setsItems /\ a.itemsToAddRef # "null"
      observed == op.op # "step"
      rendered == [c \in Ctl |-> IF renders THEN Rerender(a.hook[c], c, a.mode, a.items)
                                 ELSE a.hook[c]]
  IN /\ \A c \in Ctl : /\ Len(rendered[c].orphans) <= MaxOrphans
                        /\ Len(rendered[c].safety) <= MaxPending
                        /\ rendered[c].staleRestarts + rendered[c].stoppedRestarts <= MaxPending
                        /\ Len(rendered[c].finalTranscript) <= MaxTranscript
                        /\ a.settle[c] <= MaxPending
     /\ \A k \in DOMAIN a.resetTimers : a.resetTimers[k] <= MaxResets
     /\ a.endTimers <= MaxPending
     /\ Len(a.items) <= MaxItems
     /\ Len(a.accumulatedTranscript) <= MaxBuffer
     /\ hook' = [c \in Ctl |-> IF observed THEN rendered[c] ELSE [rendered[c] EXCEPT !.calls = <<>>]]
     /\ mode' = a.mode
     /\ hasStartedShopping' = a.hasStartedShopping
     /\ items' = a.items
     /\ accumulatedTranscript' = a.accumulatedTranscript
     /\ debouncedTranscript' = a.debouncedTranscript
     /\ debounceTimer' = (a.debounceTimer \/ a.accumulatedTranscript # accumulatedTranscript)
     /\ itemsToAddRef' = IF toasts THEN "null" ELSE a.itemsToAddRef
     /\ settle' = a.settle
     /\ resetTimers' = a.resetTimers
     /\ endTimers' = a.endTimers
     /\ events' = IF ~observed THEN <<>>
                  ELSE IF toasts
                  THEN Append(a.events, Report(IF a.itemsToAddRef = "some" THEN "itemsAdded"
                                               ELSE "nothingRecognised", <<>>))
                  ELSE a.events
     /\ input' = op
     /\ UNCHANGED isSupported

----------------------------------------------------------------------------
(* The steps.  A scope s bounds the inputs of a specification: s.ctl the     *)
(* controllers whose engine and timers act, s.finals and s.interims the      *)
(* recognised texts, s.kinds the engine's error codes, s.throws whether      *)
(* abort() and stop() of the engine may throw, s.observed whether the step   *)
(* is recorded in input, events and calls (they record nothing otherwise),   *)
(* s.hurried whether the user may act while a short timer is pending.        *)

(* The buttons and keys of GroceryApp *)

\* A scope with s.hurried false has the user act only when no 50, 100 or
\* 150 ms timer is pending.
Unhurried(s) == s.hurried \/ \A c \in Ctl : settle[c] = 0 /\ hook[c].safety = <<>>

StartAdding(s) ==
  /\ Unhurried(s)
  /\ mode = "idle"
  /\ \E abortThrows, stopThrows \in s.throws :
       Commit(handleStartAddingItems(Now, abortThrows, stopThrows), Seen(s, "startAdding", <<>>))

StartShopping(s) ==
  /\ Unhurried(s)
  /\ Len(items) > 0
  /\ ~hasStartedShopping \/ mode = "idle"
  /\ \E abortThrows, stopThrows \in s.throws :
       Commit(handleStartShopping(Now, abortThrows, stopThrows), Seen(s, "startShopping", <<>>))

\* handleStartShopping called whatever the list holds: the button and the key
\* are offered with a non-empty list only (part_002:50, 703), and the handler
\* tests the list again (part_002:555).
RequestShopping(s) ==
  /\ Unhurried(s)
  /\ ~hasStartedShopping \/ mode = "idle"
  /\ \E abortThrows, stopThrows \in s.throws :
       Commit(handleStartShopping(Now, abortThrows, stopThrows), Seen(s, "startShopping", <<>>))

StopAdding(s) ==
  /\ Unhurried(s)
  /\ mode = "adding"
  /\ \E abortThrows, stopThrows \in s.throws :
       Commit(handleStopAddingItems(Now, abortThrows, stopThrows), Seen(s, "stopAdding", <<>>))

StopShopping(s) ==
  /\ Unhurried(s)
  /\ hasStartedShopping \/ mode = "shopping"
  /\ \E abortThrows, stopThrows \in s.throws :
       Commit(handleStopShopping(Now, abortThrows, stopThrows), Seen(s, "stopShopping", <<>>))

ToggleItem(s) ==
  \E id \in ItemIds(items) : Commit(handleToggleItem(Now, id), Seen(s, "toggle", <<id>>))

RemoveItem(s) ==
  \E id \in ItemIds(items) : Commit(handleRemoveItem(Now, id), Seen(s, "remove", <<id>>))

ClearList(s) ==
  /\ Unhurried(s)
  /\ Len(items) > 0
  /\ \E abortThrows, stopThrows \in s.throws :
       Commit(handleClearList(Now, abortThrows, stopThrows), Seen(s, "clearList", <<>>))

\* The effect of part_002:486-491 handing the parser a debounced buffer
Parse(s) ==
  \E transcript \in s.transcripts :
    Commit(parseAndAddItems(Now, transcript),
           Seen(s, "parse", <<transcript, newItems(transcript, UsedIds(Now))>>))

(* The functions a controller returns, called by its client *)

CallStart(s) ==
  \E c \in s.ctl :
    Commit([Now EXCEPT !.hook[c] = StartListening(@)], Seen(s, "startListening", <<c>>))

CallStop(s) ==
  \E c \in s.ctl : \E abortThrows, stopThrows \in s.throws :
    Commit([Now EXCEPT !.hook[c] = StopListening(@, abortThrows, stopThrows)],
           Seen(s, "stopListening", <<c, Idle(hook[c]), hook[c].manuallyStoppedRef>>))

CallReset(s) ==
  \E c \in s.ctl :
    Commit([Now EXCEPT !.hook[c] = ResetTranscript(@)], Seen(s, "resetTranscript", <<c>>))

(* The engine's events, for a started recognition object k of controller c *)

Result(s) ==
  \E c \in s.ctl : \E k \in Live(hook[c]) : \E isFinal \in BOOLEAN :
    \E text \in (IF isFinal THEN s.finals[c] ELSE s.interims) :
      \E abortThrows, stopThrows \in s.throws :
        LET o == Obj(hook[c], k)
            a == [Now EXCEPT !.hook[c] = OnResultState(OnResultTimers(@, o, c), text, isFinal)]
        IN /\ o.st \in {"running", "stopping"}
           /\ Commit(IF c = "add" THEN addOnResult(a, text, isFinal, abortThrows, stopThrows)
                     ELSE shopOnResult(a, o, text, isFinal),
                     Seen(s, "result", <<c, k, text, isFinal>>))

AudioEnd(s) ==
  \E c \in s.ctl : \E k \in Live(hook[c]) :
    Commit([Now EXCEPT !.hook[c] = OnAudioEnd(@, Obj(hook[c], k))], Seen(s, "audioend", <<c, k>>))

Error(s) ==
  \E c \in s.ctl : \E k \in Live(hook[c]) : \E kind \in s.kinds :
    LET a == [Now EXCEPT !.hook[c] = OnError(@, kind)]
    IN Commit(IF ReportsError(kind) THEN onError(a) ELSE Now, Seen(s, "error", <<c, k, kind>>))

End(s) ==
  \E c \in s.ctl : \E k \in Live(hook[c]) :
    LET o == Obj(hook[c], k)
        a == IF c = "add" /\ FiresOnEnd(hook[c]) THEN addOnEnd(Now, o) ELSE Now
    IN Commit([a EXCEPT !.hook[c] = Ended(OnEnd(@), k)], Seen(s, "end", <<c, k>>))

(* The timers *)

\* setTimeout(() => startListening(), 100) of handleStartAddingItems / handleStartShopping
SettleFires(s) ==
  \E c \in s.ctl :
    /\ settle[c] > 0
    /\ Commit([Now EXCEPT !.settle[c] = @ - 1, !.hook[c] = StartListening(@)],
              Seen(s, "settle", <<c>>))

\* The 50 ms attempt of a stopListening() runs before its 150 ms attempt and
\* before the 50 ms attempt of a later stopListening(); likewise the 150 ms ones.
SafetyFires(s) ==
  \E c \in s.ctl : \E i \in 1..Len(hook[c].safety) : \E throws \in s.throws :
    LET pending == hook[c].safety
    IN /\ IF pending[i] = 2 THEN \A j \in 1..(i - 1) : pending[j] = 1 ELSE i = 1
       /\ Commit([Now EXCEPT !.hook[c] =
                    [SafetyAbort(@, throws) EXCEPT
                       !.safety = IF pending[i] = 2 THEN [pending EXCEPT ![i] = 1]
                                  ELSE Tail(pending)]],
                 Seen(s, "safety", <<c, pending[i]>>))

\* The restart continuation of 'audioend': the one timeoutRef holds, a leaked
\* one, or a leaked one that was pending when stopListening() ran
RestartFires(s) ==
  \E c \in s.ctl : \E which \in {"timeoutRef", "staleRestarts", "stoppedRestarts"} :
    /\ IF which = "timeoutRef" THEN hook[c].timeoutRef ELSE hook[c][which] > 0
    /\ Commit([Now EXCEPT !.hook[c] =
                 RestartContinuation(IF which = "timeoutRef" THEN [@ EXCEPT !.timeoutRef = FALSE]
                                     ELSE [@ EXCEPT ![which] = @ - 1])],
              Seen(s, "restart", <<c, which>>))

InactivityFires(s) ==
  \E c \in s.ctl : \E throws \in s.throws :
    /\ hook[c].inactivityTimeoutRef
    /\ Commit([Now EXCEPT !.hook[c] =
                 InactivityTimeout([@ EXCEPT !.inactivityTimeoutRef = FALSE], throws)],
              Seen(s, "inactivity", <<c>>))

AutoStopFires(s) ==
  \E c \in s.ctl : \E throws \in s.throws :
    /\ hook[c].autoStopTimeoutRef
    /\ Commit([Now EXCEPT !.hook[c] =
                 AutoStopTimeout([@ EXCEPT !.autoStopTimeoutRef = FALSE], throws)],
              Seen(s, "autoStop", <<c>>))

\* onEnd's setTimeout(handleStopAddingItems, 2000)
EndTimerFires(s) ==
  /\ endTimers > 0
  /\ \E abortThrows, stopThrows \in s.throws :
       Commit(handleStopAddingItems([Now EXCEPT !.endTimers = @ - 1], abortThrows, stopThrows),
              Seen(s, "endTimer", <<>>))

\* The 3 s resets: of checkOffItems (part_002:212-216) and of handleToggleItem (616-619)
ResetFires(s) ==
  \E kind \in DOMAIN resetTimers : \E abortThrows, stopThrows \in s.throws :
    LET a == [Now EXCEPT !.resetTimers[kind] = @ - 1,
                         !.items = <<>>, !.setsItems = TRUE, !.mode = "idle"]
    IN /\ resetTimers[kind] > 0
       /\ Commit(IF kind = "checkoff" THEN handleStopShopping(a, abortThrows, stopThrows) ELSE a,
                 Seen(s, "reset", <<kind>>))

\* use-debounce.ts: setDebouncedValue(value) for the value the timer was armed
\* with; when that changes debouncedValue, the effect of part_002:486-491 runs.
DebounceFires(s) ==
  /\ debounceTimer
  /\ LET value == accumulatedTranscript
         a == [Now EXCEPT !.debounceTimer = FALSE, !.debouncedTranscript = value]
     IN Commit(IF value # debouncedTranscript /\ Trim(value) # <<>>
               THEN [parseAndAddItems(a, Trim(value)) EXCEPT !.accumulatedTranscript = <<>>]
               ELSE a,
               Seen(s, "debounce", <<value>>))

----------------------------------------------------------------------------
(* The state after mount: both controllers built, the debounce timer armed   *)
(* for the empty buffer.                                                     *)

Init ==
  /\ isSupported \in BOOLEAN
  /\ hook = [c \in Ctl |-> InitHook(c, isSupported)]
  /\ mode = "idle"
  /\ hasStartedShopping = FALSE
  /\ items = <<>>
  /\ accumulatedTranscript = <<>>
  /\ debouncedTranscript = <<>>
  /\ debounceTimer = TRUE
  /\ itemsToAddRef = "null"
  /\ settle = [c \in Ctl |-> 0]
  /\ resetTimers = [checkoff |-> 0, toggle |-> 0]
  /\ endTimers = 0
  /\ events = <<>>
  /\ input = Op("mount", <<>>)

(* One session controller under every call sequence of its client and every  *)
(* sequence of engine events: the adding session, with recognised text that  *)
(* GroceryApp's onResult ignores (blank finals, interim text).               *)

SessionScope ==
  [ctl |-> {"add"},
   finals |-> [add |-> {Chars("                  ")}, shop |-> {}],
   interims |-> {Chars("app")},
   transcripts |-> {},
   kinds |-> ErrorKinds,
   throws |-> BOOLEAN,
   hurried |-> TRUE,
   observed |-> TRUE]

NextSession ==
  \/ CallStart(SessionScope) \/ CallStop(SessionScope) \/ CallReset(SessionScope)
  \/ Result(SessionScope) \/ AudioEnd(SessionScope) \/ Error(SessionScope) \/ End(SessionScope)
  \/ SafetyFires(SessionScope) \/ RestartFires(SessionScope)
  \/ InactivityFires(SessionScope) \/ AutoStopFires(SessionScope)

SpecSession == Init /\ [][NextSession]_vars

(* The orchestrator with both controllers: the buttons and the Escape key,   *)
(* the settle timers, the engine's results and ends, and the timers that     *)
(* follow from them.  One utterance is recognised while adding, and the user *)
(* acts only when the 50, 100 and 150 ms timers have run.                    *)

\* One controller whose objects only stopListening() and its two attempts
\* terminate: the silence timers do not fire and the engine reports no error,
\* so an object that is aborting or stopping is one stop() terminated.
StopScope ==
  [ctl |-> {"add"},
   finals |-> [add |-> {}, shop |-> {}],
   interims |-> {Chars("app")},
   transcripts |-> {},
   kinds |-> {},
   throws |-> BOOLEAN,
   hurried |-> TRUE,
   observed |-> TRUE]

NextStop ==
  \/ CallStart(StopScope) \/ CallStop(StopScope)
  \/ Result(StopScope) \/ AudioEnd(StopScope) \/ End(StopScope)
  \/ SafetyFires(StopScope) \/ RestartFires(StopScope)

SpecStop == Init /\ [][NextStop]_vars

ModesScope ==
  [ctl |-> {"add", "shop"},
   finals |-> [add |-> {Chars("i need raspberries")}, shop |-> {}],
   interims |-> {},
   transcripts |-> {},
   kinds |-> {},
   throws |-> {FALSE},
   hurried |-> FALSE,
   observed |-> FALSE]

NextModes ==
  \/ StartAdding(ModesScope) \/ StartShopping(ModesScope)
  \/ StopAdding(ModesScope) \/ StopShopping(ModesScope) \/ ClearList(ModesScope)
  \/ SettleFires(ModesScope) \/ SafetyFires(ModesScope)
  \/ Result(ModesScope) \/ End(ModesScope)
  \/ EndTimerFires(ModesScope) \/ DebounceFires(ModesScope)

SpecModes == Init /\ [][NextModes]_vars

(* The list under the parser and the list's buttons: every sequence of the   *)
(* transcripts below, of toggles, removals and clears.                       *)

ListScope ==
  [ctl |-> {},
   finals |-> [add |-> {}, shop |-> {}],
   interims |-> {},
   transcripts |-> Range(Strs(<<"apples", "3 eggs", "a dozen eggs", "apples and apples",
                                "2 apples and a dozen eggs", "peanut butter and jelly",
                                "peanut butter jelly", "2 peanut butter and jelly",
                                "ice cream cheese", "hello", "0 apples and milk">>)),
   kinds |-> {},
   throws |-> {FALSE},
   hurried |-> TRUE,
   observed |-> TRUE]

NextList ==
  \/ Parse(ListScope)
  \/ ToggleItem(ListScope) \/ RemoveItem(ListScope) \/ ClearList(ListScope)
  \/ ResetFires(ListScope)

SpecList == Init /\ [][NextList]_vars

(* Adding mode: the engine delivers the final texts "apples" and "and        *)
(* bananas" in any order and number and ends its sessions, the debounce     *)
(* timer fires at any time after it was armed, the user starts adding, and   *)
(* adding stops 2 s after the engine ended.                                  *)

AddingScope ==
  [ctl |-> {"add"},
   finals |-> [add |-> Range(Strs(<<"apples", "and bananas">>)), shop |-> {}],
   interims |-> {},
   transcripts |-> {},
   kinds |-> {},
   throws |-> {FALSE},
   hurried |-> FALSE,
   observed |-> TRUE]

NextAdding ==
  \/ StartAdding(AddingScope)
  \/ SettleFires(AddingScope) \/ SafetyFires(AddingScope)
  \/ Result(AddingScope) \/ End(AddingScope) \/ EndTimerFires(AddingScope)
  \/ DebounceFires(AddingScope)

SpecAdding == Init /\ [][NextAdding]_vars

\* The same, with the timers firing: a browser runs the callback of a timer
\* that is not cleared.  The settle timer of a start request fires; the debounce
\* timer (use-debounce.ts:8-10), which only its own firing takes away, is not
\* pending forever.
SpecDebounce ==
  SpecAdding /\ WF_vars(SettleFires(AddingScope)) /\ []<>(~debounceTimer)

(* Shopping mode by voice: the list is "apples and milk", the user starts    *)
(* shopping, the engine delivers final texts that name an item, both items   *)
(* or none and ends its sessions, and the 3 s reset fires.                   *)

\* Adding mode with a user who starts and stops in a hurry and says "app"
\* over and over: every timer that is pending fires in the end, and the
\* engine sends the end event of an object that abort() or stop() terminated.
\* An object that is running may go on running.
SilenceScope ==
  [ctl |-> {"add"},
   finals |-> [add |-> {}, shop |-> {}],
   interims |-> {Chars("app")},
   transcripts |-> {},
   kinds |-> {},
   throws |-> {FALSE},
   hurried |-> TRUE,
   observed |-> TRUE]

\* The end event of an object that abort() or stop() terminated
EndOfTerminated(s) ==
  \E c \in s.ctl : \E k \in Live(hook[c]) :
    LET o == Obj(hook[c], k)
        a == IF c = "add" /\ FiresOnEnd(hook[c]) THEN addOnEnd(Now, o) ELSE Now
    IN /\ o.st \in {"aborting", "stopping"}
       /\ Commit([a EXCEPT !.hook[c] = Ended(OnEnd(@), k)], Seen(s, "end", <<c, k>>))

NextSilence ==
  \/ StartAdding(SilenceScope) \/ StopAdding(SilenceScope)
  \/ SettleFires(SilenceScope) \/ SafetyFires(SilenceScope)
  \/ Result(SilenceScope) \/ End(SilenceScope)
  \/ InactivityFires(SilenceScope) \/ AutoStopFires(SilenceScope)
  \/ EndTimerFires(SilenceScope)

SpecSilence ==
  /\ Init /\ [][NextSilence]_vars
  /\ WF_vars(SettleFires(SilenceScope)) /\ WF_vars(SafetyFires(SilenceScope))
  /\ WF_vars(InactivityFires(SilenceScope)) /\ WF_vars(AutoStopFires(SilenceScope))
  /\ WF_vars(EndTimerFires(SilenceScope)) /\ WF_vars(EndOfTerminated(SilenceScope))

\* Both modes by voice: the user starts adding, then shopping; the engine
\* delivers "apples" as interim and as final text to either session, and the
\* list is filled by the adding session.
VoiceScope ==
  [ctl |-> {"add", "shop"},
   finals |-> [add |-> {Chars("apples")}, shop |-> {Chars("apples")}],
   interims |-> {Chars("apples")},
   transcripts |-> {},
   kinds |-> {},
   throws |-> {FALSE},
   hurried |-> FALSE,
   observed |-> TRUE]

NextVoice ==
  \/ StartAdding(VoiceScope) \/ StartShopping(VoiceScope)
  \/ SettleFires(VoiceScope) \/ SafetyFires(VoiceScope)
  \/ Result(VoiceScope) \/ End(VoiceScope)
  \/ DebounceFires(VoiceScope)

SpecVoice == Init /\ [][NextVoice]_vars

\* Adding mode by voice, the user saying "i am done" over and over
StopPhraseScope ==
  [ctl |-> {"add"},
   finals |-> [add |-> {Chars("i am done")}, shop |-> {}],
   interims |-> {},
   transcripts |-> {},
   kinds |-> {},
   throws |-> {FALSE},
   hurried |-> FALSE,
   observed |-> TRUE]

NextStopPhrase ==
  \/ StartAdding(StopPhraseScope)
  \/ SettleFires(StopPhraseScope) \/ SafetyFires(StopPhraseScope)
  \/ Result(StopPhraseScope) \/ End(StopPhraseScope) \/ EndTimerFires(StopPhraseScope)
  \/ DebounceFires(StopPhraseScope)

SpecStopPhrase == Init /\ [][NextStopPhrase]_vars

\* The two functions of the catalog applied to names: every catalog entry,
\* every entry with an "s" added and with its last letter taken away, every
\* word of an entry, and some phrases of several words.
Phrases ==
  Range(Strs(<<"plain greek yogurt", "greek", "yogurt greek", "organic apples",
               "butter peanut", "hello", "apple pie", "cream", "ice">>))
Candidates ==
  UNION {{ALL_GROCERY_ITEMS[k], ALL_GROCERY_ITEMS[k] \o <<"s">>, DropLast(ALL_GROCERY_ITEMS[k])}
           \cup Range(Words(ALL_GROCERY_ITEMS[k])) : k \in 1..Len(ALL_GROCERY_ITEMS)}
    \cup Phrases

\* One application to one name, after mount.
Lookup ==
  /\ input.op = "mount"
  /\ \E name \in Candidates :
       input' = Op("lookup", <<name, findBestMatch(name), isValidGroceryItem(name)>>)
  /\ UNCHANGED <<isSupported, hook, mode, hasStartedShopping, items, accumulatedTranscript,
                 debouncedTranscript, debounceTimer, itemsToAddRef, settle, resetTimers,
                 endTimers, events>>

NextCatalog == Lookup

SpecCatalog == Init /\ [][NextCatalog]_vars

\* Shopping mode with a user who starts and stops in a hurry and says "app"
\* over and over; the list is "apples".  The inactivity timer of the shopping
\* session is never armed (timeout: 0), so it has no step here.
ShopSilenceScope ==
  [ctl |-> {"shop"},
   finals |-> [add |-> {}, shop |-> {}],
   interims |-> {Chars("app")},
   transcripts |-> {Chars("apples")},
   kinds |-> {},
   throws |-> {FALSE},
   hurried |-> TRUE,
   observed |-> TRUE]

NextShopSilence ==
  \/ Parse(ShopSilenceScope)
  \/ StartShopping(ShopSilenceScope) \/ StopShopping(ShopSilenceScope)
  \/ SettleFires(ShopSilenceScope) \/ SafetyFires(ShopSilenceScope)
  \/ Result(ShopSilenceScope) \/ End(ShopSilenceScope)
  \/ AutoStopFires(ShopSilenceScope)

SpecShopSilence == Init /\ [][NextShopSilence]_vars

\* A client that starts the session, only when the engine object of the
\* controller is at rest, so that start() does not throw, and then leaves it to
\* the engine and to the timers of the controller; no call of the engine throws
\* on request.  The controller stops listening only by its silence timers.
RestartScope ==
  [ctl |-> {"add"},
   finals |-> [add |-> {}, shop |-> {}],
   interims |-> {Chars("app")},
   transcripts |-> {},
   kinds |-> {},
   throws |-> {FALSE},
   hurried |-> TRUE,
   observed |-> TRUE]

NextRestart ==
  \/ (hook["add"].recognitionRef.st = "idle" /\ CallStart(RestartScope))
  \/ Result(RestartScope) \/ AudioEnd(RestartScope) \/ End(RestartScope)
  \/ InactivityFires(RestartScope) \/ AutoStopFires(RestartScope)
  \/ RestartFires(RestartScope)

SpecRestart == Init /\ [][NextRestart]_vars

\* A user who has "apples" on the list and goes from one mode to the other
\* while the engine of the adding session ends on its own.
LeaveScope ==
  [ctl |-> {"add", "shop"},
   finals |-> [add |-> {}, shop |-> {}],
   interims |-> {},
   transcripts |-> {Chars("apples")},
   kinds |-> {},
   throws |-> {FALSE},
   hurried |-> FALSE,
   observed |-> TRUE]

NextLeave ==
  \/ Parse(LeaveScope)
  \/ StartAdding(LeaveScope) \/ StopAdding(LeaveScope)
  \/ StartShopping(LeaveScope) \/ StopShopping(LeaveScope)
  \/ SettleFires(LeaveScope) \/ SafetyFires(LeaveScope)
  \/ End(LeaveScope) \/ EndTimerFires(LeaveScope)

SpecLeave == Init /\ [][NextLeave]_vars

\* The requests of the user on a list of at most one item, the handlers
\* deciding what a request does.
RequestScope ==
  [ctl |-> {"add", "shop"},
   finals |-> [add |-> {}, shop |-> {}],
   interims |-> {},
   transcripts |-> {Chars("apples")},
   kinds |-> {},
   throws |-> {FALSE},
   hurried |-> FALSE,
   observed |-> TRUE]

NextRequest ==
  \/ Parse(RequestScope) \/ RemoveItem(RequestScope)
  \/ StartAdding(RequestScope) \/ RequestShopping(RequestScope)
  \/ StopAdding(RequestScope) \/ StopShopping(RequestScope)
  \/ SettleFires(RequestScope) \/ SafetyFires(RequestScope)
  \/ End(RequestScope)

SpecRequest == Init /\ [][NextRequest]_vars

ShoppingScope ==
  [ctl |-> {"shop"},
   finals |-> [add |-> {},
               shop |-> Range(Strs(<<"i have apples", "apples and milk", "ap is on my to do">>))],
   interims |-> {},
   transcripts |-> {Chars("apples and milk")},
   kinds |-> {},
   throws |-> {FALSE},
   hurried |-> FALSE,
   observed |-> TRUE]

NextShopping ==
  \/ Parse(ShoppingScope)
  \/ StartShopping(ShoppingScope)
  \/ SettleFires(ShoppingScope) \/ SafetyFires(ShoppingScope)
  \/ Result(ShoppingScope) \/ End(ShoppingScope)
  \/ ResetFires(ShoppingScope)

SpecShopping == Init /\ [][NextShopping]_vars

(* Shopping mode by voice and touch: the list is "apples", the user also     *)
(* toggles the item, before and while shopping.                              *)

CheckOffScope ==
  [ctl |-> {"shop"},
   finals |-> [add |-> {},
               shop |-> Range(Strs(<<"i have apples", "ap is on my to do">>))],
   interims |-> {},
   transcripts |-> {Chars("apples")},
   kinds |-> {},
   throws |-> {FALSE},
   hurried |-> FALSE,
   observed |-> TRUE]

NextCheckOff ==
  \/ Parse(CheckOffScope)
  \/ ToggleItem(CheckOffScope)
  \/ StartShopping(CheckOffScope)
  \/ SettleFires(CheckOffScope) \/ SafetyFires(CheckOffScope)
  \/ Result(CheckOffScope) \/ End(CheckOffScope)
  \/ ResetFires(CheckOffScope)

SpecCheckOff == Init /\ [][NextCheckOff]_vars

\* The engine is capturing audio for an object of controller c.
EngineRunning(c) == \E k \in Live(hook[c]) : Obj(hook[c], k).st = "running"

\* C1: the engines of the adding controller and of the shopping controller
\* are never running at the same time.
C1_AtMostOneListening == ~(EngineRunning("add") /\ EngineRunning("shop"))

Session == hook["add"]
Invoked(h) == {h.calls[i] : i \in DOMAIN h.calls}
Restarts(h) == (IF h.timeoutRef THEN 1 ELSE 0) + h.staleRestarts + h.stoppedRestarts

\* C2: a stopListening() on a supported controller leaves it reporting not
\* listening at once, whether or not abort() and stop() throw, and nothing but
\* a later startListening() makes it report listening again: not an engine
\* event, not a timer, not the 50 ms and 150 ms termination attempts.  So it
\* reports not listening when the 150 ms attempt has run.
C2_StopIsBounded ==
  [][/\ (input'.op = "stopListening" /\ isSupported) => ~Session'.isListening
     /\ (Session'.isListening /\ ~Session.isListening) => input'.op = "startListening"]_vars

\* The 150 ms attempt of a stopListening() has run, its abort() threw, an
\* object of the controller is still started, and the controller reports not
\* listening.
C2_Witness ==
  /\ input.op = "safety"
  /\ input.arg[2] = 1
  /\ Session.safety = <<>>
  /\ \E k \in Live(Session) : Obj(Session, k).st = "running"
  /\ Session.manuallyStoppedRef
  /\ ~Session.isListening

\* C3: a restart continuation that was pending when stopListening() ran never
\* invokes the engine's start().
C3_NoRestartAfterStop ==
  [][(input'.op = "restart" /\ input'.arg[2] = "stoppedRestarts")
       => "start" \notin Invoked(Session')]_vars

\* C4: a stopListening() called while the controller is Idle leaves it Idle,
\* invokes no start() and schedules no restart continuation; neither do its
\* 50 ms and 150 ms attempts.
C4_StopWhileIdle ==
  [][/\ (input'.op = "stopListening" /\ input'.arg[2])
          => /\ Idle(Session')
             /\ "start" \notin Invoked(Session')
             /\ Restarts(Session') <= Restarts(Session)
     /\ input'.op = "safety"
          => /\ Session'.isListening = Session.isListening
             /\ "start" \notin Invoked(Session')
             /\ Restarts(Session') <= Restarts(Session)]_vars

\* stopListening() was called while Idle and already manually stopped, that
\* is, after an earlier stopListening() that nothing has followed.
C4_Witness ==
  /\ input.op = "stopListening"
  /\ input.arg[2]
  /\ input.arg[3]
  /\ isSupported
  /\ Invoked(Session) # {}
  /\ Idle(Session)

Named(its, name) == {k \in DOMAIN its : its[k].name = name}

\* C5: the list never holds two items whose names are equal ignoring case.
C5_NamesUnique ==
  \A i, j \in DOMAIN items : i # j => ToLower(items[i].name) # ToLower(items[j].name)

\* The parser was handed transcript and yielded made.
Yielded(transcript, made) ==
  /\ input.op = "parse"
  /\ input.arg[1] = Chars(transcript)
  /\ [k \in DOMAIN input.arg[2] |-> [name |-> input.arg[2][k].name,
                                      quantity |-> input.arg[2][k].quantity,
                                      unit |-> input.arg[2][k].unit]] = made
Parses(transcript) == input.op = "parse" /\ input.arg[1] = Chars(transcript)

\* A spoken fragment and the item it stands for
Counted(said, name, quantity) ==
  [said |-> said,
   item |-> [name |-> Chars(name), quantity |-> Number(quantity, <<>>), unit |-> Undefined]]
CountedFragments ==
  {Counted("2 apples", "Apples", 2), Counted("3 eggs", "Eggs", 3),
   Counted("a dozen eggs", "Eggs", 12)}

\* C7: a transcript of one fragment '<digits> <catalog item>' or 'a dozen
\* <catalog item>', or of two of them joined by "and", yields per fragment one
\* item named as the catalog item, capitalised, with the spoken number (12
\* for 'a dozen') as quantity and no unit.
C7_QuantityExtraction ==
  \A f, g \in CountedFragments :
    /\ Parses(f.said) => Yielded(f.said, <<f.item>>)
    /\ Parses(f.said \o " and " \o g.said) => Yielded(f.said \o " and " \o g.said, <<f.item, g.item>>)

\* The two-word phrases of the compound set that the catalog holds
CatalogCompounds == {p \in Range(compoundItems) : p \in GROCERY_ITEMS_SET}
\* The two words of phrase are adjacent and in order among the words of s.
Adjacent(phrase, s) ==
  \E k \in 1..(Len(Words(s)) - 1) : Words(s)[k] \o <<" ">> \o Words(s)[k + 1] = phrase

\* C8: whenever the transcript handed to the parser holds the two words of a
\* compound phrase of the catalog adjacent and in order, the parser yields
\* exactly one item for the phrase and not an item for each of its words.
C8_CompoundPreserved ==
  input.op = "parse" =>
    \A phrase \in CatalogCompounds :
      Adjacent(phrase, input.arg[1]) =>
        /\ Cardinality(Named(input.arg[2], Capitalized(phrase))) = 1
        /\ \/ Named(input.arg[2], Capitalized(Words(phrase)[1])) = {}
           \/ Named(input.arg[2], Capitalized(Words(phrase)[2])) = {}

\* The transcripts the parser was handed in the step just taken
ParsedNow == SelectSeq(events, LAMBDA e : e.type = "parse")
Names(its) == [k \in DOMAIN its |-> its[k].name]

\* C6: when the debounce timer fires on a buffer that holds the final texts
\* "apples" and "and bananas", appended in this order since the timer last
\* fired, the parser is invoked exactly once, on "apples and bananas", and an
\* empty list receives the two items.
C6_DebounceCollapse ==
  [][(input'.op = "debounce" /\ input'.arg[1] = Chars(" apples and bananas"))
       => /\ Len(ParsedNow') = 1
          /\ ParsedNow'[1].text = Chars("apples and bananas")
          /\ items = <<>> => Names(items') = Strs(<<"Apples", "Bananas">>)]_vars

\* The shopping session delivered a final text to the check-off matcher.
Spoken(op) == op.op = "result" /\ op.arg[1] = "shop" /\ op.arg[4]
SpokenWords(op) == Words(ToLower(Trim(op.arg[3])))
\* No word is longer than 2 characters or a whole word of name.
OnlyShortStrangers(words, name) ==
  \A i \in DOMAIN words : Len(words[i]) <= 2 /\ ~InSeq(words[i], Words(ToLower(name)))

\* C9: a final text of the shopping session whose words are at most 2
\* characters long and not whole words of an item's name does not check that
\* item off, and a final text with a word equal to the lower-case name of an
\* incomplete item of the list checks that item off.
C9_CheckOffPrecision ==
  [][Spoken(input') =>
       \A k \in DOMAIN items :
         /\ (~items[k].completed /\ OnlyShortStrangers(SpokenWords(input'), items[k].name))
              => ~items'[k].completed
         /\ (~items[k].completed /\ InSeq(ToLower(items[k].name), SpokenWords(input')))
              => items'[k].completed]_vars

AllCompleteNow == SelectSeq(events, LAMBDA e : e.type = "allComplete")

\* C10: a final text of the shopping session fires the all-complete event
\* once when its check-off update completes the last incomplete item of the
\* list, and not at all otherwise: not when an item stays incomplete, not
\* when the list was complete already.
C10_AllCompleteOnce ==
  [][Spoken(input') =>
       Len(AllCompleteNow') = IF ~allCompleted(items) /\ allCompleted(items') THEN 1 ELSE 0]_vars

\* What a controller holds apart from the calls of the step just taken
Held(h) == [h EXCEPT !.calls = <<>>]

\* C11: without a supported engine startListening() changes nothing the
\* controller holds (listening state, manual-stop flag, transcripts, timers)
\* and invokes no engine primitive.
C11_StartUnsupported ==
  [][(input'.op = "startListening" /\ ~isSupported)
       => Held(Session') = Held(Session) /\ Session'.calls = <<>>]_vars

\* startListening() was called without a supported engine.
C11_Witness ==
  /\ input.op = "startListening"
  /\ ~isSupported
  /\ ~HasRec(Session)
  /\ ~Session.isListening

\* C12: a stopListening() on a supported controller leaves the manual-stop
\* flag set and the controller not listening whatever its engine calls do,
\* and leaves no inactivity, auto-stop or restart timer pending.
C12_StopClearsTimers ==
  [][(input'.op = "stopListening" /\ isSupported)
       => /\ Session'.manuallyStoppedRef
          /\ ~Session'.isListening
          /\ Invoked(Session') # {}
          /\ ~Session'.inactivityTimeoutRef
          /\ ~Session'.autoStopTimeoutRef
          /\ Restarts(Session') = 0]_vars

\* The timers a controller has pending
Timers(h) ==
  <<h.timeoutRef, h.staleRestarts, h.stoppedRestarts, h.inactivityTimeoutRef,
    h.autoStopTimeoutRef, h.safety>>
\* The engine's states of the started objects of a controller

\* C13: resetTranscript() empties the interim and the final transcript and
\* leaves the listening state, the manual-stop flag, every pending timer and
\* the engine as they were.
C13_ResetTranscriptFrame ==
  [][input'.op = "resetTranscript"
       => /\ Session'.transcript = <<>>
          /\ Session'.finalTranscript = <<>>
          /\ Session'.isListening = Session.isListening
          /\ Session'.manuallyStopped = Session.manuallyStopped
          /\ Session'.manuallyStoppedRef = Session.manuallyStoppedRef
          /\ Timers(Session') = Timers(Session)
          /\ Session'.calls = <<>>
          /\ Cardinality(Live(Session')) = Cardinality(Live(Session))]_vars

\* The step called stopListening() on the session of controller c: the
\* manual-stop flag is set, the controller is not listening, the two
\* termination attempts are scheduled.
StopsSession(c) ==
  /\ hook'[c].manuallyStoppedRef
  /\ ~hook'[c].isListening
  /\ Len(hook'[c].safety) = Len(hook[c].safety) + 1
\* The step only scheduled the start of the session of controller c: the
\* settle timer is armed, and the session is as it was but for its transcripts.
DefersStart(c) ==
  /\ settle'[c] = settle[c] + 1
  /\ hook'[c].isListening = hook[c].isListening
  /\ Cardinality(Live(hook'[c])) = Cardinality(Live(hook[c]))

\* C14: a step that takes the mode from adding to shopping, or from shopping
\* to adding, stops the session of the mode it leaves and starts the new
\* session only through the settle timer it arms.
C14_SwitchStopsThenStarts ==
  [][/\ (mode = "adding" /\ mode' = "shopping") => StopsSession("add") /\ DefersStart("shop")
     /\ (mode = "shopping" /\ mode' = "adding") => StopsSession("shop") /\ DefersStart("add")]_vars

\* The mode went from adding to shopping: the adding session was stopped and
\* the start of the shopping session is pending.
C14_Witness ==
  /\ mode = "shopping"
  /\ hook["add"].manuallyStoppedRef
  /\ hook["add"].safety # <<>>
  /\ settle["shop"] = 1
  /\ Live(hook["shop"]) = {}

\* The step neither stopped nor started the session of controller c.
Untouched(c) ==
  /\ hook'[c].calls = <<>>
  /\ hook'[c].isListening = hook[c].isListening
  /\ hook'[c].manuallyStoppedRef = hook[c].manuallyStoppedRef
  /\ hook'[c].safety = hook[c].safety
  /\ settle'[c] = settle[c]
  /\ Cardinality(Live(hook'[c])) = Cardinality(Live(hook[c]))

\* C15: a start-shopping request made with an empty list leaves the mode as
\* it was and stops and starts no session, and the mode becomes shopping
\* only in a start-shopping request made with a non-empty list.
C15_EmptyListRequest ==
  [][/\ (input'.op = "startShopping" /\ Len(items) = 0)
          => mode' = mode /\ \A c \in Ctl : Untouched(c)
     /\ (mode # "shopping" /\ mode' = "shopping")
          => input'.op = "startShopping" /\ Len(items) > 0]_vars

\* A start-shopping request was made in adding mode with an empty list while
\* the adding session was listening.
C15_Witness ==
  /\ input.op = "startShopping"
  /\ Len(items) = 0
  /\ mode = "adding"
  /\ hook["add"].isListening
  /\ \E k \in 1..Len(events) : events[k].type = "noItems"

Fatal == {"network", "not-allowed"}
Reported(type) == \E k \in 1..Len(events) : events[k].type = type

\* C16: an engine error of kind network or not-allowed leaves the controller
\* reporting not listening and is reported to the client, and the step that
\* follows it invokes the engine's start() only if it is a startListening().
C16_FatalError ==
  [][/\ (input'.op = "error" /\ input'.arg[3] \in Fatal)
          => ~Session'.isListening /\ Reported("error")'
     /\ (input.op = "error" /\ input.arg[3] \in Fatal /\ "start" \in Invoked(Session'))
          => input'.op = "startListening"]_vars

\* C17: an engine error of kind aborted is not reported to the client and
\* changes neither what the controller reports about listening nor the
\* manual-stop flag.
C17_AbortedSwallowed ==
  [][(input'.op = "error" /\ input'.arg[3] = "aborted")
       => /\ ~Reported("error")'
          /\ Session'.isListening = Session.isListening
          /\ Session'.manuallyStopped = Session.manuallyStopped
          /\ Session'.manuallyStoppedRef = Session.manuallyStoppedRef]_vars

\* The engine sent the error aborted for an object stopListening() aborted,
\* before its end event: the flag is still set.
C17_Witness ==
  /\ input.op = "error"
  /\ input.arg[3] = "aborted"
  /\ Session.manuallyStoppedRef
  /\ Obj(Session, input.arg[2]).st = "aborting"

\* C18: on an end event, if the manual-stop flag is set the controller
\* reports not listening, the flag is reset and onEnd is not called; if the
\* flag is not set, onEnd is called.  So onEnd is not called on the end event
\* of an object that stopListening() terminated.
C18_EndEvent ==
  [][input'.op = "end"
       => /\ Session.manuallyStoppedRef
               => /\ ~Session'.isListening
                  /\ ~Session'.manuallyStoppedRef
                  /\ "onEnd" \notin Invoked(Session')
          /\ ~Session.manuallyStoppedRef => "onEnd" \in Invoked(Session')
          /\ Obj(Session, input'.arg[2]).st \in {"aborting", "stopping"}
               => "onEnd" \notin Invoked(Session')]_vars

\* The controller reports listening and was not stopped by its client.
Listens(h) == h.isListening /\ ~h.manuallyStoppedRef

\* C19: a result, interim or final, of a controller that is listening leaves
\* the inactivity timer armed, and when the timer fires the controller
\* reports not listening and no object of it is still running.
C19_InactivityStop ==
  [][/\ (input'.op = "result" /\ Listens(Session)) => Session'.inactivityTimeoutRef
     /\ input'.op = "inactivity"
          => ~Session'.isListening /\ ~EngineRunning("add")']_vars

\* C20: a result of a controller that is listening leaves the auto-stop timer
\* armed, whatever becomes of the inactivity timer, and when the auto-stop
\* timer fires the controller reports not listening and no object of it is
\* still running.
C20_AutoStop ==
  [][/\ (input'.op = "result" /\ Listens(Session)) => Session'.autoStopTimeoutRef
     /\ input'.op = "autoStop"
          => ~Session'.isListening /\ ~EngineRunning("add")']_vars

\* The adding session stopped itself in adding mode: the inactivity or the
\* auto-stop timer fired and terminated the object recognitionRef holds.
StoppedBySilence ==
  /\ mode = "adding"
  /\ input.op \in {"inactivity", "autoStop"}
  /\ Invoked(Session) \cap {"abort", "stop"} # {}
  /\ ~Session.isListening

\* C21: when the adding session stops itself in adding mode because a silence
\* timer fired, the mode becomes idle in the end, whether or not the user acts.
C21_SilenceEndsAdding == StoppedBySilence ~> (mode = "idle")

\* A final text of the adding session that says no stop phrase
SaysStop(text) == \E k \in 1..Len(stopPhrases) : Includes(Trim(ToLower(text)), stopPhrases[k])
Accumulated(op) ==
  /\ op.op = "result" /\ op.arg[1] = "add" /\ op.arg[4]
  /\ Trim(op.arg[3]) # <<>> /\ ~SaysStop(op.arg[3])

\* C22: a final text is appended at the end of the accumulator after a space,
\* nothing else is put into the accumulator and nothing is taken out of it but
\* all of it at once, and the parser is handed what the accumulator holds,
\* trimmed: the pending final texts in the order of their emission, each once.
C22_AccumulatorOrder ==
  [][/\ Accumulated(input')
          => accumulatedTranscript' = accumulatedTranscript \o <<" ">> \o Trim(input'.arg[3])
     /\ (accumulatedTranscript' # accumulatedTranscript /\ ~Accumulated(input'))
          => accumulatedTranscript' = <<>>
     /\ ParsedNow' # <<>>
          => /\ input'.op = "debounce"
             /\ Len(ParsedNow') = 1
             /\ ParsedNow'[1].text = Trim(accumulatedTranscript)
             /\ accumulatedTranscript' = <<>>]_vars

\* The parser was handed "and bananas apples": the two final texts in the
\* order the engine emitted them.
C22_Witness ==
  /\ input.op = "debounce"
  /\ input.arg[1] = Chars(" and bananas apples")
  /\ Len(ParsedNow) = 1
  /\ ParsedNow[1].text = Chars("and bananas apples")

\* C23: an interim result changes neither the accumulator nor the list,
\* invokes no parse and leaves the final transcripts alone: it sets the live
\* transcript of its controller and nothing else of these.
C23_InterimOnlyTranscript ==
  [][(input'.op = "result" /\ ~input'.arg[4])
       => /\ accumulatedTranscript' = accumulatedTranscript
          /\ items' = items
          /\ ParsedNow' = <<>>
          /\ \A c \in Ctl : hook'[c].finalTranscript = hook[c].finalTranscript
          /\ hook'[input'.arg[1]].transcript = input'.arg[3]]_vars

\* In shopping mode the interim text "apples" arrived while Apples was not
\* completed.
C23_Witness ==
  /\ input.op = "result"
  /\ ~input.arg[4]
  /\ input.arg[1] = "shop"
  /\ mode = "shopping"
  /\ hook["shop"].transcript = Chars("apples")
  /\ Len(items) = 1
  /\ items[1].name = Chars("Apples")
  /\ ~items[1].completed

Final(op, c) == op.op = "result" /\ op.arg[1] = c /\ op.arg[4]
Completions(its) == {k \in DOMAIN its : its[k].completed}

\* C24: a final text of the shopping session changes neither the accumulator
\* nor the names and the number of the items and invokes no parse; a final
\* text of the adding session changes nothing of the list, and the accumulator
\* only by being appended to it.
C24_SessionsApart ==
  [][/\ Final(input', "shop")
          => /\ accumulatedTranscript' = accumulatedTranscript
             /\ ParsedNow' = <<>>
             /\ Names(items') = Names(items)
     /\ Final(input', "add")
          => /\ items' = items
             /\ ParsedNow' = <<>>
             /\ accumulatedTranscript' \in
                  {accumulatedTranscript,
                   accumulatedTranscript \o <<" ">> \o Trim(input'.arg[3])}]_vars

\* The final text "apples" of the shopping session completed Apples while
\* the accumulator held the "apples" of the adding session.
C24_Witness ==
  /\ Final(input, "shop")
  /\ accumulatedTranscript = Chars(" apples")
  /\ Completions(items) = {1}

\* C25: in adding mode a final text of the adding session that says a stop
\* phrase sets the mode to idle and stops the session, so that the controller
\* reports not listening and no object of it is running any more, and the
\* text is neither appended to the accumulator nor parsed.
C25_StopPhrase ==
  [][(Final(input', "add") /\ mode = "adding" /\ SaysStop(input'.arg[3]))
       => /\ mode' = "idle"
          /\ ~hook'["add"].isListening
          /\ ~EngineRunning("add")'
          /\ accumulatedTranscript' = accumulatedTranscript
          /\ ParsedNow' = <<>>]_vars

\* Every item of made has the name, ignoring case, of an item of its.
AllKnown(its, made) ==
  \A k \in DOMAIN made : \E j \in DOMAIN its : ToLower(its[j].name) = ToLower(made[k].name)

\* C26: when a transcript is parsed, nothing-recognised is reported if and
\* only if no fragment survived the filters; when fragments survived and all
\* of them name items of the list, nothing is reported and the list is as it
\* was; items-added is reported only when items were added.
C26_ParseReports ==
  [][input'.op = "parse"
       => /\ Reported("nothingRecognised")' <=> input'.arg[2] = <<>>
          /\ (input'.arg[2] # <<>> /\ AllKnown(items, input'.arg[2]))
               => /\ ~Reported("nothingRecognised")' /\ ~Reported("itemsAdded")'
                  /\ items' = items
          /\ Reported("itemsAdded")' => Len(items') > Len(items)]_vars

\* The catalog entries a name stands for: the name with or without a final
\* "s", or an entry all of whose words are words of the name, one of the two
\* having several words.
Qualifying(name) ==
  {e \in GROCERY_ITEMS_SET :
     \/ name = e \o <<"s">>
     \/ e = name \o <<"s">>
     \/ /\ HasSpace(name) \/ HasSpace(e)
        /\ Range(Words(e)) \subseteq Range(Words(name))}

C28_SameRule ==
  input.op = "lookup" => (input.arg[2] \in GROCERY_ITEMS_SET <=> input.arg[3])

\* The ids of the items that the listener of the object a result came from
\* matched with the text
Heard(op) == matchedItems(Obj(hook["shop"], op.arg[2]).items, Trim(op.arg[3]))
Kind(item) == [id |-> item.id, name |-> item.name, quantity |-> item.quantity, unit |-> item.unit]

\* C29: a final text of the shopping session updates the list in one step:
\* every matched item is completed after it, no completed item becomes
\* incomplete, an item that was not matched is as it was, and the items, their
\* order, ids, names, quantities and units are unchanged.
C29_CheckOffBatch ==
  [][Final(input', "shop")
       => /\ Len(items') = Len(items)
          /\ \A k \in DOMAIN items :
               /\ Kind(items'[k]) = Kind(items[k])
               /\ items[k].completed => items'[k].completed
               /\ items[k].id \in Heard(input') => items'[k].completed
               /\ items[k].id \notin Heard(input') => items'[k] = items[k]]_vars

\* "apples and milk" was heard and both items are completed.
C29_Witness ==
  /\ Final(input, "shop")
  /\ input.arg[3] = Chars("apples and milk")
  /\ Len(items) = 2
  /\ Completions(items) = {1, 2}
  /\ Len(AllCompleteNow) = 1

\* C30: parsing a transcript leaves every item of the list as it was and where
\* it was, also an item the transcript names with another quantity, and the
\* items it appends are not completed.
C30_ParseAppends ==
  [][input'.op = "parse"
       => /\ Len(items') >= Len(items)
          /\ SubSeq(items', 1, Len(items)) = items
          /\ \A k \in (Len(items) + 1)..Len(items') : ~items'[k].completed]_vars

\* "2 apples and a dozen eggs" was parsed into a list that held Eggs, completed
\* and without a quantity: the parser made Eggs with a quantity, the list holds
\* the old Eggs and one new item.
C30_Witness ==
  /\ Parses("2 apples and a dozen eggs")
  /\ Len(items) = 2
  /\ items[1].name = Chars("Eggs")
  /\ items[1].completed
  /\ items[1].quantity = Undefined
  /\ ~items[2].completed
  /\ \E k \in DOMAIN input.arg[2] :
       input.arg[2][k].name = Chars("Eggs") /\ input.arg[2][k].quantity # Undefined

\* A number greater than zero: its whole part is, or it has a fraction
Positive(quantity) == quantity[1] > 0 \/ quantity[2] # <<>>

\* C31: every item of the list has no quantity or a quantity greater than zero.
C31_QuantityPositive ==
  \A k \in DOMAIN items : items[k].quantity = Undefined \/ Positive(items[k].quantity)

\* "0 apples and milk" was parsed into an empty list: the item made of
\* "0 apples" has no quantity.
C31_Witness ==
  /\ Parses("0 apples and milk")
  /\ Len(items) = 2
  /\ items[1].unit = Chars("apple")
  /\ items[1].quantity = Undefined
  /\ items[2].name = Chars("Milk")

C33_IdleIsSilent ==
  (mode = "idle" /\ \A c \in Ctl : settle[c] = 0)
    => \A c \in Ctl : ~hook[c].isListening /\ ~EngineRunning(c)

\* C34: a termination attempt that stopListening() scheduled (50 ms and 150 ms
\* later) does not terminate a session started after that stop: when the
\* controller listens again, the engine its reference holds keeps running
\* over the step of the attempt.
C34_LateAbortSparesNewSession ==
  [][input'.op = "safety"
       => \A c \in Ctl :
            (Listens(hook[c]) /\ hook[c].recognitionRef.st = "running")
              => hook'[c].recognitionRef.st = "running"]_vars

\* C35: after the controller has stopped itself on a silence timer, and until
\* its client calls startListening(), the restart that an end of the audio
\* schedules does not start the engine again: when the audio has just ended
\* while the controller reports not listening, the restart step that follows
\* leaves the engine of the controller as it was.  (Where the client never
\* stops the session and start() never throws, the controller reports not
\* listening with a restart pending only after it stopped itself.)
C35_NoRestartAfterSilence ==
  [][\A c \in Ctl :
       (/\ ~hook[c].isListening
        /\ input.op = "audioend" /\ input.arg[1] = c
        /\ input'.op = "restart" /\ input'.arg[1] = c)
         => (hook'[c].recognitionRef.st = "running" => hook[c].recognitionRef.st = "running")]_vars

\* C36: whenever a controller reports listening, its engine is running or a
\* restart of it is pending.
C36_ListeningMeansRunning ==
  \A c \in Ctl : hook[c].isListening => (EngineRunning(c) \/ Restarts(hook[c]) > 0)

\* C37: every final text appended to the accumulator is eventually handed to
\* the parser, which empties the buffer: a buffer that holds text does not
\* hold it forever.
C37_BufferDrains ==
  (Trim(accumulatedTranscript) # <<>>) ~> (accumulatedTranscript = <<>>)

\* C38: the delayed reset of a completed list removes no item that is not
\* completed when it fires: on a list that holds such an item the reset leaves
\* the list and the mode alone.
C38_ResetSparesChangedList ==
  [][(input'.op = "reset" /\ \E k \in DOMAIN items : ~items[k].completed)
       => (items' = items /\ mode' = mode)]_vars

\* C39: the delayed stop that onEnd of the adding session schedules does not
\* change the mode when the user has left adding mode in the meantime (the
\* mode is no longer adding) or has re-entered it (the request to add items
\* came while the delayed stop was pending, and the stop fires next).
C39_LateStopKeepsMode ==
  [][(input'.op = "endTimer" /\ (mode # "adding" \/ input.op = "startAdding"))
       => mode' = mode]_vars

====
